---- MODULE Spec2Model ----
(***************************************************************************)
(* A model of jedi's value inference for callables and literal containers: *)
(*   jedi/inference/value/function.py  (function values, overloads,        *)
(*                                      return / yield inference)          *)
(*   jedi/inference/value/iterable.py  (literal and synthetic containers,  *)
(*                                      the array-additions scanner)       *)
(* The analysed program (syntax tree, inferred value sets of its leaves)   *)
(* is the input of an inference session; the operations of the two files   *)
(* are the actions.                                                        *)
(***************************************************************************)
EXTENDS Integers, Sequences, FiniteSets, TLC

(***************************************************************************)
(* Bounds of the model.                                                    *)
(***************************************************************************)
\* usages of the function's name in one scope
MaxDefs == 3
\* calls of one function value in a session
MaxCalls == 2
\* comma-separated items of a list, set or tuple literal
MaxElems == 3
\* entries of a dict literal
MaxEntries == 2
\* occurrences of one method name in the module's used-names index
MaxUses == 2

VARIABLES
    \* ---- function.py: overloads ----
    scope,           \* usages of one name in a scope, in textual order
    is_analysis,     \* inference_state.is_analysis
    function_value,  \* what FunctionValue.from_context built
    call_log,        \* the last py__call__: result and what it evaluated
    ncalls,          \* calls made so far
    \* ---- iterable.py: containers and the array-additions scanner ----
    sequence,        \* the container value under inference
    settings,        \* jedi.settings: the two flags the scanner reads and writes
    module_context,  \* the root context: compiled or not, its used-names index
    iterated,        \* the last py__iter__: what it yielded, how it ended
    item,            \* the last py__simple_getitem__: its index and outcome
    truth,           \* the last py__bool__: its answer
    unpacking,       \* the arguments of unpack_tuple_to_dict: types, exprlist
    unpacked,        \* the last unpack_tuple_to_dict: its outcome
    \* ---- function.py: one execution of a function ----
    execution_context,  \* the FunctionExecutionContext: its tree and hints
    yield_lazy_values,  \* the last get_yield_lazy_values, consumed to its end
    yield_values,       \* the last merge_yield_values
    return_values,      \* the last get_return_values
    environment,        \* inference_state.environment: its version_info
    inferred,           \* the last infer() of the execution
    \* ---- the guard on return and yield computation ----
    executions,      \* what the body of each execution returns or yields
    call_stack,      \* the guarded computations in progress, innermost last
    execution_recursion_detector,  \* the executions marked as being computed
    guard_log        \* what each request and each suppressed entry answered

overload_vars == <<scope, is_analysis, function_value, call_log, ncalls>>
container_vars ==
    <<sequence, settings, module_context, iterated, item, truth, unpacking, unpacked>>

execution_vars ==
    <<execution_context, yield_lazy_values, yield_values, return_values, environment,
      inferred>>

recursion_vars == <<executions, call_stack, execution_recursion_detector, guard_log>>

vars == <<overload_vars, container_vars, execution_vars, recursion_vars>>

(***************************************************************************)
(* The state of the part of a session that is not under inference.         *)
(***************************************************************************)
NoFunction == [cls |-> "none"]
NoCall == [called |-> FALSE]
NoSequence == [cls |-> "none"]
NotDone == [done |-> FALSE]
NoExecution == [cls |-> "none"]
NoUnpacking == [cls |-> "none"]
\* sys.version_info of the environment the session runs for
Version(major, minor) == <<major, minor>>

OverloadIdle ==
    /\ scope = <<>>
    /\ is_analysis = FALSE
    /\ function_value = NoFunction
    /\ call_log = NoCall
    /\ ncalls = 0

ContainerIdle ==
    /\ sequence = NoSequence
    /\ settings = [dynamic_array_additions |-> TRUE, dynamic_params_for_other_modules |-> TRUE]
    /\ module_context = [compiled |-> FALSE, used_names |-> <<>>]
    /\ iterated = NotDone
    /\ item = NotDone
    /\ truth = NotDone
    /\ unpacking = NoUnpacking
    /\ unpacked = NotDone

ExecutionIdle ==
    /\ execution_context = NoExecution
    /\ yield_lazy_values = NotDone
    /\ yield_values = NotDone
    /\ return_values = NotDone
    /\ environment = [version_info |-> Version(3, 8)]
    /\ inferred = NotDone

RecursionIdle ==
    /\ executions = <<>>
    /\ call_stack = <<>>
    /\ execution_recursion_detector = {}
    /\ guard_log = <<>>

(***************************************************************************)
(* Generic helpers.                                                        *)
(***************************************************************************)
NO_VALUES == {}

RECURSIVE SeqsUpTo(_, _)
\* all sequences over S of length 0..n
SeqsUpTo(S, n) ==
    IF n = 0 THEN {<<>>}
    ELSE LET shorter == SeqsUpTo(S, n - 1)
         IN  shorter \cup {Append(s, e) : s \in {t \in shorter : Len(t) = n - 1}, e \in S}

Range(s) == {s[i] : i \in 1..Len(s)}

(***************************************************************************)
(* function.py: the scope of a function definition.                        *)
(*                                                                         *)
(* A scope holds the usages of one name, in textual order; usage i has     *)
(* start_pos i.  A usage is a funcdef with its decorators, or another      *)
(* statement naming the same name.  `binding` is what binding the call's   *)
(* arguments to the definition's parameters gives: issues, a parameter     *)
(* whose annotation does not match, or a match.                            *)
(***************************************************************************)
Decorator_overload == [type |-> "name", value |-> "overload"]
Decorator_typing_overload == [type |-> "dotted_name", value |-> "typing.overload"]

UsageNodes ==
    {[type |-> "funcdef", decorators |-> <<Decorator_overload>>, binding |-> b] :
        b \in {"issues", "mismatch", "match"}}
    \cup {[type |-> "funcdef", decorators |-> <<Decorator_typing_overload>>, binding |-> "match"],
          [type |-> "funcdef", decorators |-> <<>>, binding |-> "match"],
          [type |-> "expr_stmt", decorators |-> <<>>, binding |-> "match"]}

\* the tree_node of a lambda: it has no name and no place among the usages
Lambdef == 0

NodeType(sc, n) == IF n = Lambdef THEN "lambdef" ELSE sc[n].type

\* the contexts from_context is called with: the context and its parents
Contexts == {<<"module">>, <<"class", "module">>, <<"class", "instance", "function", "module">>}

\* def _is_overload_decorated(funcdef)
RECURSIVE AnyOverloadDecorator(_)
AnyOverloadDecorator(decorators) ==
    IF decorators = <<>> THEN FALSE
    ELSE IF Head(decorators).type = "name" /\ Head(decorators).value = "overload"
         THEN TRUE
         ELSE AnyOverloadDecorator(Tail(decorators))

_is_overload_decorated(funcdef) ==
    IF funcdef.decorators # <<>>          \* funcdef.parent.type == 'decorated'
    THEN AnyOverloadDecorator(funcdef.decorators)
    ELSE FALSE

\* ParserTreeFilter(..., until_position=p).get(name): the usages of the name
\* in the scope that lie before p, ordered by position
FilterGet(sc, until_position) ==
    [i \in 1..(IF until_position - 1 < Len(sc) THEN until_position - 1 ELSE Len(sc)) |-> i]

\* the `for name in names` loop of _find_overload_functions: the funcdefs it
\* yields, and the tree_node it ends with
RECURSIVE OverloadScan(_, _, _, _)
OverloadScan(sc, names, tree_node, yielded) ==
    IF names = <<>> THEN [tree_node |-> tree_node, yielded |-> yielded]
    ELSE LET funcdef == Head(names)
         IN  IF sc[funcdef].type = "funcdef" /\ _is_overload_decorated(sc[funcdef])
             THEN OverloadScan(sc, Tail(names), funcdef, Append(yielded, funcdef))
             ELSE OverloadScan(sc, Tail(names), tree_node, yielded)

\* the `while True` loop of _find_overload_functions
RECURSIVE OverloadLoop(_, _)
OverloadLoop(sc, tree_node) ==
    LET names == FilterGet(sc, tree_node)
        scan  == OverloadScan(sc, names, tree_node, <<>>)
    IN  IF names = <<>> THEN <<>>
        ELSE IF scan.yielded = <<>> THEN <<>>      \* not found
        ELSE scan.yielded \o OverloadLoop(sc, scan.tree_node)

\* def _find_overload_functions(value, tree_node)
_find_overload_functions(sc, tree_node) ==
    IF NodeType(sc, tree_node) = "lambdef" THEN <<>>
    ELSE (IF _is_overload_decorated(sc[tree_node]) THEN <<tree_node>> ELSE <<>>)
         \o OverloadLoop(sc, tree_node)

\* the parent_context walk of from_context: the first context of the chain
\* that is neither a class nor an instance
RECURSIVE ParentContext(_, _)
ParentContext(context, i) ==
    IF context[i] \in {"class", "instance"} THEN ParentContext(context, i + 1) ELSE i

\* def create(tree_node) inside from_context
create(context, tree_node) ==
    [cls            |-> IF context[1] = "class" THEN "MethodValue" ELSE "FunctionValue",
     parent_context |-> context[ParentContext(context, 1)],
     tree_node      |-> tree_node]

\* FunctionValue.from_context(context, tree_node)
from_context(sc, context, tree_node) ==
    LET overloaded_funcs == _find_overload_functions(sc, tree_node)
        function == create(context, tree_node)
    IN  IF overloaded_funcs # <<>>
        THEN [cls |-> "OverloadedFunctionValue",
              wrapped_value |-> function,
              overloaded_functions |->
                  [i \in 1..Len(overloaded_funcs) |-> create(context, overloaded_funcs[i])]]
        ELSE function

\* FunctionExecutionContext.get_executed_params_and_issues
get_executed_params_and_issues(sc, f) ==
    [issues |-> sc[f.tree_node].binding = "issues",
     executed_params_match |-> sc[f.tree_node].binding = "match"]

\* FunctionExecutionContext.matches_signature
matches_signature(sc, f) ==
    LET r == get_executed_params_and_issues(sc, f)
    IN  IF r.issues THEN FALSE ELSE r.executed_params_match

\* FunctionExecutionContext.infer() of the execution of f: the value set of
\* that definition's execution, named after the definition
ExecutionInfer(f) == {f.tree_node}

\* the `for f in self._overloaded_functions` loop of py__call__
RECURSIVE OverloadedCallLoop(_, _, _)
OverloadedCallLoop(sc, fs, function_executions) ==
    IF fs = <<>>
    THEN [matched |-> FALSE, function_executions |-> function_executions,
          inferred |-> <<>>, result |-> NO_VALUES]
    ELSE LET f == Head(fs)
             execs == Append(function_executions, f)
         IN  IF matches_signature(sc, f)
             THEN [matched |-> TRUE, function_executions |-> execs,
                   inferred |-> <<f>>, result |-> ExecutionInfer(f)]
             ELSE OverloadedCallLoop(sc, Tail(fs), execs)

\* a call that merges all candidates in analysis mode as well
OverloadedPyCall_MergesInAnalysis(sc, fv, analysis) ==
    LET loop == OverloadedCallLoop(sc, fv.overloaded_functions, <<>>)
    IN  IF loop.matched THEN loop
        ELSE [loop EXCEPT !.inferred = loop.function_executions,
                          !.result = UNION {ExecutionInfer(fe) : fe \in Range(loop.function_executions)}]

\* OverloadedFunctionValue.py__call__(arguments)
OverloadedPyCall(sc, fv, analysis) ==
    LET loop == OverloadedCallLoop(sc, fv.overloaded_functions, <<>>)
    IN  IF loop.matched THEN loop
        ELSE IF analysis
        THEN [loop EXCEPT !.result = NO_VALUES]
        ELSE [loop EXCEPT !.inferred = loop.function_executions,
                          !.result = UNION {ExecutionInfer(fe) : fe \in Range(loop.function_executions)}]

\* FunctionMixin.py__call__(arguments)
FunctionPyCall(fv) ==
    [matched |-> FALSE, function_executions |-> <<fv>>,
     inferred |-> <<fv>>, result |-> ExecutionInfer(fv)]

py__call__(sc, fv, analysis) ==
    IF fv.cls = "OverloadedFunctionValue"
    THEN OverloadedPyCall(sc, fv, analysis)
    ELSE FunctionPyCall(fv)

(***************************************************************************)
(* Actions of the overload session.                                        *)
(***************************************************************************)
OverloadInit ==
    /\ ContainerIdle
    /\ ExecutionIdle
    /\ RecursionIdle
    /\ scope \in SeqsUpTo(UsageNodes, MaxDefs)
    /\ is_analysis \in BOOLEAN
    /\ function_value = NoFunction
    /\ call_log = NoCall
    /\ ncalls = 0

\* a name of the scope (or a lambda) is inferred: its function value is built
FromContext ==
    /\ function_value = NoFunction
    /\ \E context \in Contexts :
       \E tree_node \in {Lambdef} \cup {i \in 1..Len(scope) : scope[i].type = "funcdef"} :
           function_value' = from_context(scope, context, tree_node)
    /\ UNCHANGED <<scope, is_analysis, call_log, ncalls>>
    /\ UNCHANGED <<container_vars, execution_vars, recursion_vars>>

\* the function value is called with the session's arguments
PyCall ==
    /\ function_value # NoFunction
    /\ ncalls < MaxCalls
    /\ call_log' = [called |-> TRUE] @@ py__call__(scope, function_value, is_analysis)
    /\ ncalls' = ncalls + 1
    /\ UNCHANGED <<scope, is_analysis, function_value>>
    /\ UNCHANGED <<container_vars, execution_vars, recursion_vars>>

OverloadNext == FromContext \/ PyCall

SpecOverload == OverloadInit /\ [][OverloadNext]_vars

(***************************************************************************)
(* C1 -- overload resolution takes the first textual-order match.          *)
(***************************************************************************)
\* the overload candidates of the function value that match the call
MatchingCandidates ==
    {f \in Range(function_value.overloaded_functions) : matches_signature(scope, f)}

\* the matching candidate that comes first in the source
FirstInSource ==
    CHOOSE f \in MatchingCandidates :
        \A g \in MatchingCandidates : f.tree_node <= g.tree_node

OverloadedCallWithMatch ==
    /\ call_log.called
    /\ function_value.cls = "OverloadedFunctionValue"
    /\ MatchingCandidates # {}

\* C1: calling the overloaded function value built by from_context returns
\* the inferred result of the first candidate in source order whose
\* matches_signature() is true, and infers no other candidate.
C1_FirstTextualMatch ==
    OverloadedCallWithMatch =>
        /\ call_log.result = ExecutionInfer(FirstInSource)
        /\ call_log.inferred = <<FirstInSource>>

\* the part of C1 the code keeps: a call stops at the first match of the
\* candidate list and gives the same result every time
C1_StopsAtFirstListMatch ==
    OverloadedCallWithMatch =>
        /\ Len(call_log.inferred) = 1
        /\ call_log.inferred[1] = call_log.function_executions[Len(call_log.function_executions)]
        /\ \A i \in 1..(Len(call_log.function_executions) - 1) :
               ~matches_signature(scope, call_log.function_executions[i])

C1_SameResultEveryTime ==
    [][(call_log.called /\ call_log'.called) => call_log'.result = call_log.result]_vars

C1_TwoMatchesReached ==
    /\ OverloadedCallWithMatch
    /\ Cardinality(MatchingCandidates) >= 2

(***************************************************************************)
(* iterable.py: values, lazy values and the syntax tree of a literal.      *)
(*                                                                         *)
(* A value is a compiled object wrapping a native literal (it has          *)
(* execute_operation and a safe value) or a tree value (it has neither).   *)
(* Native equality compares the literals: 1 == 1.0, and a number never     *)
(* equals a string.                                                        *)
(***************************************************************************)
V_int1   == [cls |-> "CompiledObject", py |-> "int",   safe |-> 1]
V_float1 == [cls |-> "CompiledObject", py |-> "float", safe |-> 1]
V_int2   == [cls |-> "CompiledObject", py |-> "int",   safe |-> 2]
V_str    == [cls |-> "CompiledObject", py |-> "str",   safe |-> 10]
V_tree   == [cls |-> "TreeValue",      py |-> "instance", safe |-> 0]

NativeFamily(py) == IF py \in {"int", "float"} THEN "number" ELSE py

\* k.execute_operation(compiled_obj_index, u'==').get_safe_value()
NativeEq(k, index) ==
    /\ NativeFamily(k.py) = NativeFamily(index.py)
    /\ k.safe = index.safe

\* lazy_value.py: the three lazy values and what forcing them gives
LazyTreeValue(node)   == [cls |-> "LazyTreeValue",   data |-> node]
LazyKnownValue(v)     == [cls |-> "LazyKnownValue",  data |-> v]
LazyKnownValues(vs)   == [cls |-> "LazyKnownValues", data |-> vs]

\* self._defining_context.infer_node(node): the value set the defining
\* context gives the node
infer_node(node) == node.vals

\* lazy_value.infer()
LazyInfer(lazy) ==
    CASE lazy.cls = "LazyTreeValue"   -> infer_node(lazy.data)
      [] lazy.cls = "LazyKnownValue"  -> {lazy.data}
      [] lazy.cls = "LazyKnownValues" -> lazy.data

\* Slice(self._defining_context, None, None, None)
SliceValue == [cls |-> "Slice", py |-> "slice", safe |-> 0]

\* syntax tree nodes: a leaf or an inner node; pos is the place of an item
\* among the comma-separated items of its literal (0: not an item)
Leaf(type, value, vals, pos) ==
    [type |-> type, value |-> value, vals |-> vals, pos |-> pos, children |-> <<>>]
Operator(value) == Leaf("operator", value, {}, 0)
Inner(type, children) ==
    [type |-> type, value |-> "", vals |-> {}, pos |-> 0, children |-> children]

IsOperator(node, values) == node.type = "operator" /\ node.value \in values

\* the kinds of item of a list, set or tuple literal
Item_number    == [type |-> "number",    value |-> "1", vals |-> {V_int1}]
Item_name      == [type |-> "name",      value |-> "x", vals |-> {V_str, V_tree}]
Item_star_expr == [type |-> "star_expr", value |-> "*y", vals |-> {}]
Item_subscript == [type |-> "subscript", value |-> "1:2", vals |-> {}]
Item_colon     == [type |-> "operator",  value |-> ":", vals |-> {}]

\* the items a literal of each shape may hold
ItemsOf(shape) ==
    CASE shape \in {"(", "[", "{"}          -> {Item_number, Item_name, Item_star_expr}
      [] shape = "testlist_star_expr"       -> {Item_number, Item_name, Item_star_expr}
      [] shape = "testlist"                 -> {Item_number, Item_name}
      [] shape = "subscriptlist"            -> {Item_number, Item_name, Item_subscript, Item_colon}

Brackets == {"(", "[", "{"}
Closing(open) == CASE open = "(" -> ")" [] open = "[" -> "]" [] open = "{" -> "}"

\* items placed in source order
Placed(items) ==
    [i \in 1..Len(items) |-> Leaf(items[i].type, items[i].value, items[i].vals, i)]

\* nodes separated by commas, with or without a trailing comma
RECURSIVE WithCommas(_, _)
WithCommas(nodes, trailing) ==
    IF nodes = <<>> THEN <<>>
    ELSE IF Len(nodes) = 1
         THEN IF trailing THEN <<nodes[1], Operator(",")>> ELSE <<nodes[1]>>
         ELSE <<nodes[1], Operator(",")>> \o WithCommas(Tail(nodes), trailing)

\* the tree the parser builds for a list, set or tuple literal
LiteralAtom(shape, items, trailing) ==
    LET nodes == Placed(items)
    IN  IF shape \in Brackets
        THEN IF nodes = <<>>
             THEN Inner("atom", <<Operator(shape), Operator(Closing(shape))>>)
             ELSE IF Len(nodes) = 1 /\ ~trailing
             THEN Inner("atom", <<Operator(shape), nodes[1], Operator(Closing(shape))>>)
             ELSE Inner("atom", <<Operator(shape),
                                  Inner(IF shape = "{" THEN "dictorsetmaker" ELSE "testlist_comp",
                                        WithCommas(nodes, trailing)),
                                  Operator(Closing(shape))>>)
        ELSE Inner(shape, WithCommas(nodes, trailing))

\* the literals the parser can hand to SequenceLiteralValue: `()`, `[]`, a
\* bracketed list of items (a parenthesised single expression is no tuple,
\* `{}` is a dict), and the unbracketed tuples, which hold a comma
LiteralShapes ==
    {[shape |-> sh, items |-> its, trailing |-> tr] :
        sh \in Brackets \cup {"testlist_star_expr", "testlist", "subscriptlist"},
        its \in SeqsUpTo({Item_number, Item_name, Item_star_expr, Item_subscript, Item_colon},
                         MaxElems),
        tr \in BOOLEAN}

ValidLiteral(l) ==
    /\ Range(l.items) \subseteq ItemsOf(l.shape)
    /\ l.items = <<>> => (~l.trailing /\ l.shape \in {"(", "["})
    /\ (l.shape = "(" /\ Len(l.items) = 1) => l.trailing
    /\ (l.shape \notin Brackets /\ Len(l.items) = 1) => l.trailing

Literals == {l \in LiteralShapes : ValidLiteral(l)}

\* the kinds of key and of value of a dict literal
Key_int1   == [type |-> "number", value |-> "1",   vals |-> {V_int1}]
Key_float1 == [type |-> "number", value |-> "1.0", vals |-> {V_float1}]
Key_int2   == [type |-> "number", value |-> "2",   vals |-> {V_int2}]
Key_name   == [type |-> "name",   value |-> "k",   vals |-> {V_tree, V_int2}]
Key_unknown == [type |-> "name",  value |-> "u",   vals |-> {}]
Val_int1   == [type |-> "number", value |-> "1",   vals |-> {V_int1}]
Val_str    == [type |-> "string", value |-> "'x'", vals |-> {V_str}]

\* an entry of a dict literal: `key: value`, or the unpacking `**expr`
DictEntries ==
    {[unpack |-> FALSE, key |-> k, val |-> v] :
        k \in {Key_int1, Key_float1, Key_int2, Key_name, Key_unknown},
        v \in {Val_int1, Val_str}}
    \cup {[unpack |-> TRUE, key |-> Key_unknown, val |-> Val_int1]}

\* the children of one entry; its key and value carry the entry's place
EntryChildren(e, i) ==
    IF e.unpack
    THEN <<Operator("**"), Leaf("name", "d", {V_tree}, i)>>
    ELSE <<Leaf(e.key.type, e.key.value, e.key.vals, i), Operator(":"),
           Leaf(e.val.type, e.val.value, e.val.vals, i)>>

RECURSIVE DictChildren(_, _, _)
DictChildren(entries, i, trailing) ==
    IF i > Len(entries) THEN <<>>
    ELSE EntryChildren(entries[i], i)
         \o (IF i < Len(entries) \/ trailing THEN <<Operator(",")>> ELSE <<>>)
         \o DictChildren(entries, i + 1, trailing)

\* the tree the parser builds for a dict literal
DictAtom(entries, trailing) ==
    IF entries = <<>>
    THEN Inner("atom", <<Operator("{"), Operator("}")>>)
    ELSE Inner("atom", <<Operator("{"),
                         Inner("dictorsetmaker", DictChildren(entries, 1, trailing)),
                         Operator("}")>>)

DictLiterals ==
    {d \in [entries : SeqsUpTo(DictEntries, MaxEntries), trailing : BOOLEAN] :
        d.entries = <<>> => ~d.trailing}

\* SequenceLiteralValue._TUPLE_LIKE and SequenceLiteralValue.mapping
_TUPLE_LIKE == {"testlist_star_expr", "testlist", "subscriptlist"}
mapping(bracket) ==
    CASE bracket = "(" -> "tuple" [] bracket = "[" -> "list" [] bracket = "{" -> "set"

\* SequenceLiteralValue.__init__
SequenceLiteralValue(atom) ==
    [cls |-> "SequenceLiteralValue",
     array_type |-> IF atom.type \in _TUPLE_LIKE THEN "tuple"
                    ELSE mapping(atom.children[1].value),
     atom |-> atom]

\* DictLiteralValue.__init__ (array_type is the class attribute)
DictLiteralValue(atom) ==
    [cls |-> "DictLiteralValue", array_type |-> "dict", atom |-> atom]

\* c[::2]
RECURSIVE EveryOther(_)
EveryOther(c) ==
    IF c = <<>> THEN <<>>
    ELSE <<Head(c)>> \o (IF Len(c) <= 2 THEN <<>> ELSE EveryOther(Tail(Tail(c))))

DropFirst(s, n) == IF n >= Len(s) THEN <<>> ELSE SubSeq(s, n + 1, Len(s))

IsNotStarExpr(node) == node.type # "star_expr"

\* the dictorsetmaker branch of get_tree_entries: `for key in iterator`
RECURSIVE DictOrSetMakerEntries(_, _)
DictOrSetMakerEntries(rest, kv) ==
    IF rest = <<>> THEN kv
    ELSE LET key == Head(rest)
         IN  IF IsOperator(key, {"**"})
             THEN \* next(iterator); next(iterator, None)
                  DictOrSetMakerEntries(DropFirst(rest, 3), kv)
             ELSE IF Len(rest) = 1 \/ IsOperator(rest[2], {","})     \* op is None or ','
             THEN IF key.type = "star_expr"
                  THEN DictOrSetMakerEntries(DropFirst(rest, 2), kv)
                  ELSE DictOrSetMakerEntries(DropFirst(rest, 2), Append(kv, key))
             ELSE \* op == ':': kv.append((key, next(iterator))); next(iterator, None)
                  DictOrSetMakerEntries(DropFirst(rest, 4), Append(kv, <<key, rest[3]>>))

\* get_tree_entries without the filter of star expressions in a testlist_comp
get_tree_entries_KeepsStar(self) ==
    LET c == self.atom.children
    IN  IF self.atom.type \in _TUPLE_LIKE THEN EveryOther(c)
        ELSE LET array_node == c[2]
             IN  IF IsOperator(array_node, {"]", "}", ")"}) THEN <<>>
                 ELSE IF array_node.type = "testlist_comp"
                 THEN EveryOther(array_node.children)
                 ELSE IF array_node.type = "dictorsetmaker"
                 THEN DictOrSetMakerEntries(array_node.children, <<>>)
                 ELSE IF array_node.type = "star_expr" THEN <<>>
                 ELSE <<array_node>>

\* SequenceLiteralValue.get_tree_entries
get_tree_entries(self) ==
    LET c == self.atom.children
    IN  IF self.atom.type \in _TUPLE_LIKE THEN EveryOther(c)
        ELSE LET array_node == c[2]
             IN  IF IsOperator(array_node, {"]", "}", ")"}) THEN <<>>
                 ELSE IF array_node.type = "testlist_comp"
                 THEN SelectSeq(EveryOther(array_node.children), IsNotStarExpr)
                 ELSE IF array_node.type = "dictorsetmaker"
                 THEN DictOrSetMakerEntries(array_node.children, <<>>)
                 ELSE IF array_node.type = "star_expr" THEN <<>>
                 ELSE <<array_node>>

(***************************************************************************)
(* iterable.py: the array-additions scanner.                               *)
(*                                                                         *)
(* The module's used-names index lists the occurrences of the method       *)
(* names; an occurrence has a position and what follows its trailer in     *)
(* the enclosing power node (nothing, a call with or without arguments, a  *)
(* subscript, an operator).                                                *)
(***************************************************************************)
\* context.tree_node.start_pos and end_pos, as (line, column)
ContextStart == <<1, 0>>
ContextEnd == <<5, 0>>

\* comparison of positions, as of Python tuples
PosLess(a, b) == a[1] < b[1] \/ (a[1] = b[1] /\ a[2] < b[2])

Trailer(children) == [type |-> "trailer", value |-> "", children |-> children]

\* the value that stands for the container under inference when it occurs
\* in its own module (`a.append(a)`)
V_self == [cls |-> "SequenceLiteralValue", py |-> "self", safe |-> 0]

\* the argument of a call `recv.method(arg)`
Arg_int  == Leaf("number", "1", {V_int1}, 0)
Arg_str  == Leaf("string", "'x'", {V_str}, 0)
Arg_self == Leaf("name", "a", {V_self}, 0)

CallTrailer(arg) == Trailer(<<Operator("("), arg, Operator(")")>>)

\* power.children after the name's trailer
Followings ==
    {<<>>,
     <<CallTrailer(Arg_int)>>, <<CallTrailer(Arg_str)>>, <<CallTrailer(Arg_self)>>,
     <<Trailer(<<Operator("("), Operator(")")>>)>>,
     <<Trailer(<<Operator("["), Arg_int, Operator("]")>>)>>,
     <<Operator("**")>>}

MethodNames == {"append", "extend", "insert", "add", "update"}

\* an occurrence of a method name: where it is, what follows it, and whether
\* the expression before it infers to the container under inference
Occurrence(n, p, f, r) ==
    [name |-> n, start_pos |-> p, following |-> f, receiver_is_sequence |-> r]

\* `append` occurs in every form; the other names as a call with or without
\* an argument
Occurrences ==
    {Occurrence("append", <<2, 4>>, f, TRUE) : f \in Followings}
    \cup {Occurrence("append", ContextEnd, <<CallTrailer(Arg_int)>>, TRUE),
          Occurrence("append", <<2, 4>>, <<CallTrailer(Arg_int)>>, FALSE)}
    \cup {Occurrence(n, <<2, 4>>, f, TRUE) :
            n \in MethodNames \ {"append"},
            f \in {<<CallTrailer(Arg_int)>>, <<Trailer(<<Operator("("), Operator(")")>>)>>}}

\* module_context.tree_node.get_used_names()[add_name]; empty: KeyError
UsedNames(module, add_name) ==
    SelectSeq(module.used_names, LAMBDA o : o.name = add_name)

\* the `for name in possible_names` loop: every occurrence is skipped
\* ("done"), or one passes the filters and line 720 raises
RECURSIVE ScanPossibleNames(_)
ScanPossibleNames(possible_names) ==
    IF possible_names = <<>> THEN "done"
    ELSE LET name == Head(possible_names)
         IN  IF ~(PosLess(ContextStart, name.start_pos) /\ PosLess(name.start_pos, ContextEnd))
             THEN ScanPossibleNames(Tail(possible_names))
             ELSE IF name.following = <<>>                   \* IndexError
             THEN ScanPossibleNames(Tail(possible_names))
             ELSE LET execution_trailer == name.following[1]
                  IN  IF \/ execution_trailer.type # "trailer"
                         \/ ~IsOperator(execution_trailer.children[1], {"("})
                         \/ IsOperator(execution_trailer.children[2], {")"})
                      THEN ScanPossibleNames(Tail(possible_names))
                      ELSE "raise"                           \* raise NotImplementedError

\* the `for add_name in search_names` loop
RECURSIVE ScanSearchNames(_, _)
ScanSearchNames(module, search_names) ==
    IF search_names = <<>> THEN "done"
    ELSE LET possible_names == UsedNames(module, Head(search_names))
         IN  IF possible_names = <<>>                        \* KeyError: continue
             THEN ScanSearchNames(module, Tail(search_names))
             ELSE IF ScanPossibleNames(possible_names) = "raise" THEN "raise"
             ELSE ScanSearchNames(module, Tail(search_names))

\* a scanner that does not look at the feature flag or at the kind of module
_check_array_additions_IgnoresFlag(sequence_, st, module) ==
    LET temp_param_add == st.dynamic_params_for_other_modules
        scanning == [st EXCEPT !.dynamic_params_for_other_modules = FALSE]
        search_names == IF sequence_.array_type = "list"
                        THEN <<"append", "extend", "insert">> ELSE <<"add", "update">>
    IN  IF ScanSearchNames(module, search_names) = "raise"
        THEN [raised |-> TRUE, added_types |-> NO_VALUES, settings |-> scanning]
        ELSE [raised |-> FALSE, added_types |-> NO_VALUES,
              settings |-> [scanning EXCEPT
                               !.dynamic_params_for_other_modules = temp_param_add]]

\* def _check_array_additions(context, sequence): whether it raised, the
\* added types it returned, and the settings it leaves behind
_check_array_additions(sequence_, st, module) ==
    IF ~st.dynamic_array_additions \/ module.compiled
    THEN [raised |-> FALSE, added_types |-> NO_VALUES, settings |-> st]
    ELSE LET temp_param_add == st.dynamic_params_for_other_modules
             scanning == [st EXCEPT !.dynamic_params_for_other_modules = FALSE]
             is_list == sequence_.array_type = "list"
             search_names == IF is_list THEN <<"append", "extend", "insert">>
                             ELSE <<"add", "update">>
         IN  IF ScanSearchNames(module, search_names) = "raise"
             THEN [raised |-> TRUE, added_types |-> NO_VALUES, settings |-> scanning]
             ELSE [raised |-> FALSE, added_types |-> NO_VALUES,
                   settings |-> [scanning EXCEPT
                                    !.dynamic_params_for_other_modules = temp_param_add]]

\* def check_array_additions(context, sequence)
check_array_additions(sequence_, st, module) ==
    IF sequence_.array_type \notin {"list", "set"}
    THEN [raised |-> FALSE, added_types |-> NO_VALUES, settings |-> st]
    ELSE _check_array_additions(sequence_, st, module)

(***************************************************************************)
(* iterable.py: iteration and indexing of containers.                      *)
(***************************************************************************)
\* FakeSequence.__init__
FakeSequence(array_type, lazy_value_list) ==
    [cls |-> "FakeSequence", array_type |-> array_type,
     lazy_value_list |-> lazy_value_list]

\* a set in some order: the order in which Python iterates a set
RECURSIVE SetAsSeq(_)
SetAsSeq(S) ==
    IF S = {} THEN <<>>
    ELSE LET x == CHOOSE y \in S : TRUE IN <<x>> \o SetAsSeq(S \ {x})

\* key types that also take in the values of the entries
RECURSIVE DictKeyTypes_WithValues(_)
DictKeyTypes_WithValues(entries) ==
    IF entries = <<>> THEN NO_VALUES
    ELSE infer_node(Head(entries)[1]) \cup infer_node(Head(entries)[2])
         \cup DictKeyTypes_WithValues(Tail(entries))

\* the dict branch of SequenceLiteralValue.py__iter__
RECURSIVE DictKeyTypes(_)
DictKeyTypes(entries) ==
    IF entries = <<>> THEN NO_VALUES
    ELSE infer_node(Head(entries)[1]) \cup DictKeyTypes(Tail(entries))

\* the lazy value py__iter__ yields for one entry of a list, set or tuple
EntryLazy(node) ==
    IF IsOperator(node, {":"}) \/ node.type = "subscript"
    THEN LazyKnownValue(SliceValue)
    ELSE LazyTreeValue(node)

\* SequenceLiteralValue.py__iter__
LiteralPyIter(self, st, module) ==
    IF self.array_type = "dict"
    THEN LET types == DictKeyTypes(get_tree_entries(self))
         IN  [yielded |-> [i \in 1..Cardinality(types) |-> LazyKnownValues(types)],
              raised |-> FALSE, settings |-> st]
    ELSE LET entries == get_tree_entries(self)
             literal == [i \in 1..Len(entries) |-> EntryLazy(entries[i])]
             additions == check_array_additions(self, st, module)
         IN  [yielded |-> literal \o SetAsSeq(additions.added_types),
              raised |-> additions.raised, settings |-> additions.settings]

\* leaves and expressions of the syntax tree used as inputs
Keyword(value) == Leaf("keyword", value, {}, 0)
Number_1 == Leaf("number", "1", {V_int1}, 0)
Number_2 == Leaf("number", "2", {V_int2}, 0)
String_s == Leaf("string", "s", {V_str}, 0)
Name_x == Leaf("name", "x", {}, 0)
Name_y == Leaf("name", "y", {}, 0)

\* an expression whose inferred values iterate to the given lazy values
IterableNode(value, lazies) ==
    [type |-> "atom", value |-> value, vals |-> {}, pos |-> 0, children |-> <<>>,
     iterates |-> lazies]
Tuple_1_2 == IterableNode("(1, 2)", <<LazyTreeValue(Number_1), LazyTreeValue(Number_2)>>)
Tuple_empty == IterableNode("()", <<>>)
Exprlist_x_y == Inner("exprlist", <<Name_x, Operator(","), Name_y>>)

\* an iteration that goes through a set of the lazy values: duplicates and
\* order are lost
FakePyIter_Dedup(self, st) ==
    [yielded |-> SetAsSeq(Range(self.lazy_value_list)), raised |-> FALSE, settings |-> st]

\* FakeSequence.py__iter__
FakePyIter(self, st) ==
    [yielded |-> self.lazy_value_list, raised |-> FALSE, settings |-> st]

(***************************************************************************)
(* iterable.py: unpack_tuple_to_dict.                                      *)
(***************************************************************************)
\* a dict from names to value sets
EmptyDict == [name \in {} |-> NO_VALUES]
DictOf(name, types) == [n \in {name} |-> types]

\* analysis.add(value, name, node, message): a diagnostic attached to a node
Issue(value, name, node) == [value |-> value, name |-> name, node |-> node]

\* what an unpacking leaves behind: the dict it returns, the diagnostics it
\* added, and the exception it raised, if any
Unpacked(dct, issues, raised) == [dct |-> dct, issues |-> issues, raised |-> raised]

\* types.iterate(exprlist): what the one value of the set iterates to
ValueSetIterate(types) ==
    IF types = NO_VALUES THEN <<>>
    ELSE LET value == CHOOSE v \in types : TRUE
         IN  IF value.cls = "FakeSequence" THEN value.lazy_value_list ELSE <<>>

\* a diagnostic of the wrong kind for parts left over
TooFewIssue_AsTooMany(value, parts, n) ==
    Issue(value, "value-error-too-many-values", parts[n + 1])

\* `has_parts = next(parts, None)` after n parts are consumed, and the
\* diagnostic on it
TooFewIssue(value, parts, n) ==
    Issue(value, "value-error-too-few-values", parts[n + 1])

\* def unpack_tuple_to_dict(value, types, exprlist); UnpackLoop is its
\* `for lazy_value in types.iterate(exprlist):` from the n-th value on
RECURSIVE unpack_tuple_to_dict(_, _, _)
RECURSIVE UnpackLoop(_, _, _, _, _)
UnpackLoop(value, lazy_values, parts, n, acc) ==
    IF n > Len(lazy_values) \/ acc.raised THEN acc
    ELSE IF n > Len(parts)
         \* StopIteration: the diagnostic names the last part taken
         THEN UnpackLoop(value, lazy_values, parts, n + 1,
                  Unpacked(acc.dct,
                           Append(acc.issues,
                                  Issue(value, "value-error-too-many-values",
                                        parts[Len(parts)])),
                           FALSE))
         ELSE LET r == unpack_tuple_to_dict(value, LazyInfer(lazy_values[n]), parts[n])
              IN  UnpackLoop(value, lazy_values, parts, n + 1,
                      Unpacked(r.dct @@ acc.dct, acc.issues \o r.issues, r.raised))
unpack_tuple_to_dict(value, types, exprlist) ==
    IF exprlist.type = "name"
    THEN Unpacked(DictOf(exprlist.value, types), <<>>, FALSE)
    ELSE IF exprlist.type = "atom" /\ IsOperator(exprlist.children[1], {"(", "["})
    THEN unpack_tuple_to_dict(value, types, exprlist.children[2])
    ELSE IF exprlist.type \in {"testlist", "testlist_comp", "exprlist", "testlist_star_expr"}
    THEN LET parts == EveryOther(exprlist.children)
             lazy_values == ValueSetIterate(types)
             loop == UnpackLoop(value, lazy_values, parts, 1,
                                Unpacked(EmptyDict, <<>>, FALSE))
         IN  IF loop.raised THEN loop
             ELSE IF types # NO_VALUES /\ Len(lazy_values) < Len(parts)
             THEN Unpacked(loop.dct,
                           Append(loop.issues,
                                  TooFewIssue(value, parts, Len(lazy_values))),
                           FALSE)
             ELSE loop
    ELSE IF exprlist.type = "power" \/ exprlist.type = "atom_expr"
    THEN Unpacked(EmptyDict, <<>>, FALSE)
    ELSE IF exprlist.type = "star_expr"
    THEN Unpacked(EmptyDict, <<>>, FALSE)
    ELSE Unpacked(EmptyDict, <<>>, TRUE)                 \* raise NotImplementedError

(***************************************************************************)
(* iterable.py: comprehensions, FakeDict, MergedArray.                     *)
(***************************************************************************)
\* `for <exprlist> in <input_node>`, followed by the comp_for nested in it
SyncCompFor(exprlist, input_node, nested) ==
    Inner("sync_comp_for",
          <<Keyword("for"), exprlist, Keyword("in"), input_node>> \o nested)

\* get_sync_comp_fors(sync_comp_for_node): the chain of nested comp_fors
RECURSIVE get_sync_comp_fors(_)
get_sync_comp_fors(comp_for) ==
    <<comp_for>> \o (IF Len(comp_for.children) > 4
                     THEN get_sync_comp_fors(comp_for.children[5]) ELSE <<>>)

\* _BaseComprehension.__init__ and the class attributes array_type
ListComprehension(sync_comp_for_node, entry_node) ==
    [cls |-> "ListComprehension", array_type |-> "list",
     sync_comp_for_node |-> sync_comp_for_node, entry_node |-> entry_node]
SetComprehension(sync_comp_for_node, entry_node) ==
    [cls |-> "SetComprehension", array_type |-> "set",
     sync_comp_for_node |-> sync_comp_for_node, entry_node |-> entry_node]
GeneratorComprehension(sync_comp_for_node, entry_node) ==
    [cls |-> "GeneratorComprehension", array_type |-> "None",
     sync_comp_for_node |-> sync_comp_for_node, entry_node |-> entry_node]
\* DictComprehension.__init__
DictComprehension(sync_comp_for_node, key_node, value_node) ==
    [cls |-> "DictComprehension", array_type |-> "dict",
     sync_comp_for_node |-> sync_comp_for_node, entry_node |-> key_node,
     value_node |-> value_node]

\* FakeDict.__init__: dct holds the native keys with their lazy values
FakeDict(dct) == [cls |-> "FakeDict", array_type |-> "dict", dct |-> dct]

\* MergedArray.__init__
MergedArray(arrays) ==
    [cls |-> "MergedArray", array_type |-> arrays[Len(arrays)].array_type,
     arrays |-> arrays]

\* a truthiness that answers for every container below GeneratorBase as
\* Sequence does
py__bool___SequenceForAll(self) ==
    IF self.cls = "FakeSequence"
    THEN IF Len(self.lazy_value_list) > 0 THEN "True" ELSE "False"
    ELSE "None"

\* the classes below GeneratorBase, and FakeSequence, answer for themselves;
\* every other container inherits Sequence.py__bool__
py__bool__(self) ==
    IF self.cls \in {"GeneratorComprehension", "Generator"} THEN "True"
    ELSE IF self.cls = "FakeSequence"
         THEN IF Len(self.lazy_value_list) > 0 THEN "True" ELSE "False"
         ELSE "None"

\* parent_context.infer_node(node) where names are predefined
InferNodeWith(node, dct) ==
    IF node.type = "name" /\ node.value \in DOMAIN dct THEN dct[node.value]
    ELSE infer_node(node)

\* input_types.iterate(cn) for the input node of a comp_for
IterateNodeWith(input_node, dct) ==
    IF input_node.type = "name" THEN ValueSetIterate(InferNodeWith(input_node, dct))
    ELSE input_node.iterates

\* a comprehension that yields the entries of the later elements first
RECURSIVE _nested_LaterFirst(_, _, _, _)
_nested_LaterFirst(self, comp_fors, dct, i) ==
    LET comp_for == comp_fors[1]
        input_node == comp_for.children[4]
        iterated_ == IterateNodeWith(input_node, dct)
        exprlist == comp_for.children[2]
    IN  IF i > Len(iterated_) THEN [raised |-> FALSE, yielded |-> <<>>]
        ELSE LET types == LazyInfer(iterated_[i])
                 u == unpack_tuple_to_dict("comp_for", types, exprlist)
                 names == u.dct @@ dct
                 here == IF Len(comp_fors) > 1
                         THEN _nested_LaterFirst(self, Tail(comp_fors), names, 1)
                         ELSE [raised |-> FALSE,
                               yielded |->
                                   <<IF self.array_type = "dict"
                                     THEN <<InferNodeWith(self.entry_node, names),
                                            InferNodeWith(self.value_node, names)>>
                                     ELSE InferNodeWith(self.entry_node, names)>>]
                 rest == _nested_LaterFirst(self, comp_fors, dct, i + 1)
             IN  IF u.raised THEN [raised |-> TRUE, yielded |-> <<>>]
                 ELSE IF here.raised THEN here
                 ELSE [raised |-> rest.raised, yielded |-> rest.yielded \o here.yielded]

\* ComprehensionMixin._nested(comp_fors, parent_context), from the i-th
\* value of the input on; dct holds the names predefined by the enclosing
\* comp_fors
RECURSIVE _nested(_, _, _, _)
_nested(self, comp_fors, dct, i) ==
    LET comp_for == comp_fors[1]
        input_node == comp_for.children[4]
        iterated_ == IterateNodeWith(input_node, dct)
        exprlist == comp_for.children[2]
    IN  IF i > Len(iterated_) THEN [raised |-> FALSE, yielded |-> <<>>]
        ELSE LET types == LazyInfer(iterated_[i])
                 u == unpack_tuple_to_dict("comp_for", types, exprlist)
                 names == u.dct @@ dct
                 here == IF Len(comp_fors) > 1
                         THEN _nested(self, Tail(comp_fors), names, 1)
                         ELSE \* IndexError: no comp_for is left
                              [raised |-> FALSE,
                               yielded |->
                                   <<IF self.array_type = "dict"
                                     THEN <<InferNodeWith(self.entry_node, names),
                                            InferNodeWith(self.value_node, names)>>
                                     ELSE InferNodeWith(self.entry_node, names)>>]
                 rest == _nested(self, comp_fors, dct, i + 1)
             IN  IF u.raised THEN [raised |-> TRUE, yielded |-> <<>>]
                 ELSE IF here.raised THEN here
                 ELSE [raised |-> rest.raised, yielded |-> here.yielded \o rest.yielded]

\* ComprehensionMixin._iterate
_iterate(self) == _nested(self, get_sync_comp_fors(self.sync_comp_for_node), EmptyDict, 1)

\* ComprehensionMixin.py__iter__
ComprehensionPyIter(self, st) ==
    LET r == _iterate(self)
    IN  [yielded |-> [k \in 1..Len(r.yielded) |-> LazyKnownValues(r.yielded[k])],
         raised |-> r.raised, settings |-> st]

\* DictComprehension.py__iter__
DictComprehensionPyIter(self, st) ==
    LET r == _iterate(self)
    IN  [yielded |-> [k \in 1..Len(r.yielded) |-> LazyKnownValues(r.yielded[k][1])],
         raised |-> r.raised, settings |-> st]

\* array.py__iter__() of a container that is not a merged one
ArrayPyIter(self, st, module) ==
    IF self.cls = "FakeSequence" THEN FakePyIter(self, st)
    ELSE IF self.cls \in {"ListComprehension", "SetComprehension", "GeneratorComprehension"}
    THEN ComprehensionPyIter(self, st)
    ELSE IF self.cls = "DictComprehension" THEN DictComprehensionPyIter(self, st)
    ELSE LiteralPyIter(self, st, module)

\* MergedArray.py__iter__: the arrays are iterated one after the other, a
\* merged array among them through its own arrays; an exception of one of
\* them ends the iteration
RECURSIVE MergedPyIterLoop(_, _, _)

\* the lazy values of one array, followed by those of the arrays after it
MergedYield(array, rest) ==
    [yielded |-> IF rest.raised THEN <<>> ELSE array.yielded \o rest.yielded,
     raised |-> rest.raised, settings |-> rest.settings]

MergedPyIterStep(array, arrays, module) ==
    IF array.raised THEN [array EXCEPT !.yielded = <<>>]
    ELSE MergedYield(array, MergedPyIterLoop(arrays, array.settings, module))

MergedPyIterLoop(arrays, st, module) ==
    IF arrays = <<>> THEN [yielded |-> <<>>, raised |-> FALSE, settings |-> st]
    ELSE IF Head(arrays).cls = "MergedArray"
    THEN MergedPyIterLoop(Head(arrays).arrays \o Tail(arrays), st, module)
    ELSE MergedPyIterStep(ArrayPyIter(Head(arrays), st, module), Tail(arrays), module)

MergedPyIter(self, st, module) == MergedPyIterLoop(self.arrays, st, module)

py__iter__(self, st, module) ==
    IF self.cls = "MergedArray" THEN MergedPyIter(self, st, module)
    ELSE ArrayPyIter(self, st, module)

\* the native objects a container is indexed with
IntIndex(n) == [py |-> "int", safe |-> n]
SliceIndex == [py |-> "slice", safe |-> 0]
StrIndex == [py |-> "str", safe |-> 10]
Indexes == {IntIndex(n) : n \in (0 - 1)..MaxElems} \cup {SliceIndex, StrIndex}

Found(values, examined) ==
    [raised |-> "", result |-> values, examined |-> examined]
NotFound(examined) ==
    [raised |-> "SimpleGetItemNotFound", result |-> NO_VALUES, examined |-> examined]

\* a scan that goes on after a match: the last equal key wins
RECURSIVE DictGetitemLoop_LastWins(_, _, _)
DictGetitemLoop_LastWins(entries, index, examined) ==
    IF entries = <<>> THEN NotFound(examined)
    ELSE LET key == Head(entries)[1]
             value == Head(entries)[2]
             seen == Append(examined, key.pos)
             later == DictGetitemLoop_LastWins(Tail(entries), index, seen)
         IN  IF later.raised = "" THEN later
             ELSE IF \E k \in infer_node(key) : k.cls = "CompiledObject" /\ NativeEq(k, index)
             THEN Found(infer_node(value), seen)
             ELSE later

\* the dict branch of SequenceLiteralValue.py__simple_getitem__: the loop
\* over the entries; examined lists the entries whose key was inferred
RECURSIVE DictGetitemLoop(_, _, _)
DictGetitemLoop(entries, index, examined) ==
    IF entries = <<>> THEN NotFound(examined)
    ELSE LET key == Head(entries)[1]
             value == Head(entries)[2]
             seen == Append(examined, key.pos)
         IN  IF \E k \in infer_node(key) :
                    /\ k.cls = "CompiledObject"          \* it has execute_operation
                    /\ NativeEq(k, index)
             THEN Found(infer_node(value), seen)
             ELSE DictGetitemLoop(Tail(entries), index, seen)

\* an indexing that takes the last element for an index past the end
PyListItem_ClampsToLast(list, index) ==
    IF index.py # "int" \/ list = <<>> THEN <<>>
    ELSE IF index.safe >= 0
         THEN IF index.safe < Len(list) THEN <<list[index.safe + 1]>> ELSE <<list[Len(list)]>>
         ELSE IF Len(list) + index.safe >= 0
              THEN <<list[Len(list) + index.safe + 1]>> ELSE <<>>

\* list[index] of Python: IndexError or TypeError becomes SimpleGetItemNotFound
\* (reraise_getitem_errors)
PyListItem(list, index) ==
    IF index.py # "int" THEN <<>>                            \* TypeError
    ELSE IF index.safe >= 0
         THEN IF index.safe < Len(list) THEN <<list[index.safe + 1]>> ELSE <<>>
         ELSE IF Len(list) + index.safe >= 0
              THEN <<list[Len(list) + index.safe + 1]>> ELSE <<>>

\* SequenceLiteralValue.py__simple_getitem__
LiteralGetitem(self, index) ==
    IF self.array_type = "dict"
    THEN DictGetitemLoop(get_tree_entries(self), index, <<>>)
    ELSE IF index.py = "slice" THEN Found({self}, <<>>)
    ELSE LET node == PyListItem(get_tree_entries(self), index)
         IN  IF node = <<>> THEN NotFound(<<>>)
             ELSE Found(infer_node(node[1]), <<node[1].pos>>)

\* FakeSequence.py__simple_getitem__
FakeGetitem(self, index) ==
    IF index.py = "slice" THEN Found({self}, <<>>)
    ELSE LET lazy_value == PyListItem(self.lazy_value_list, index)
         IN  IF lazy_value = <<>> THEN NotFound(<<>>)
             ELSE Found(LazyInfer(lazy_value[1]), <<>>)

\* ListComprehension.py__simple_getitem__
ListComprehensionGetitem(self, index) ==
    IF index.py = "slice" THEN Found({self}, <<>>)
    ELSE LET all_types == ComprehensionPyIter(self, <<>>).yielded
             lazy_value == PyListItem(all_types, index)
         IN  IF lazy_value = <<>> THEN NotFound(<<>>)
             ELSE Found(LazyInfer(lazy_value[1]), <<>>)

py__simple_getitem__(self, index) ==
    IF self.cls = "FakeSequence" THEN FakeGetitem(self, index)
    ELSE IF self.cls = "ListComprehension" THEN ListComprehensionGetitem(self, index)
    ELSE LiteralGetitem(self, index)

(***************************************************************************)
(* Actions of the container session.                                       *)
(***************************************************************************)
Settings == [dynamic_array_additions : BOOLEAN, dynamic_params_for_other_modules : BOOLEAN]

\* the lazy values a synthetic sequence is built from
KnownLazies ==
    {LazyKnownValues(vs) : vs \in {NO_VALUES, {V_int1}, {V_str}, {V_int1, V_tree}}}

\* (1, 2) as a value, and ((1, 2), (1, 2)): pairs to iterate over
Pair_1_2 == FakeSequence("tuple", <<LazyTreeValue(Number_1), LazyTreeValue(Number_2)>>)
Tuple_pairs == IterableNode("((1, 2), (1, 2))", <<LazyKnownValue(Pair_1_2), LazyKnownValue(Pair_1_2)>>)

\* `for x in (1, 2)`, `for x in ()`, `for x, y in ((1, 2), (1, 2))`,
\* `for y in ((1, 2), (1, 2)) for x in y`
SyncCompFors ==
    {SyncCompFor(Name_x, Tuple_1_2, <<>>),
     SyncCompFor(Name_x, Tuple_empty, <<>>),
     SyncCompFor(Exprlist_x_y, Tuple_pairs, <<>>),
     SyncCompFor(Name_y, Tuple_pairs, <<SyncCompFor(Name_x, Name_y, <<>>)>>)}
EntryNodes == {Name_x, Number_1, String_s}

ListComprehensions ==
    {ListComprehension(c, e) : c \in SyncCompFors, e \in EntryNodes}
OtherComprehensions ==
    {SetComprehension(c, e) : c \in SyncCompFors, e \in EntryNodes}
    \cup {GeneratorComprehension(c, e) : c \in SyncCompFors, e \in EntryNodes}
    \cup {DictComprehension(c, k, String_s) : c \in SyncCompFors, k \in EntryNodes}

FakeSequences ==
    {FakeSequence(array_type, lazy_value_list) :
        array_type \in {"list", "tuple"},
        lazy_value_list \in SeqsUpTo(KnownLazies, MaxElems)}
FakeDicts ==
    {FakeDict(dct) :
        dct \in {<<>>, <<[key |-> "a", lazy_value |-> LazyKnownValue(V_int1)]>>}}
MergedArrays ==
    {MergedArray(<<a, b>>) :
        a \in {s \in FakeSequences : Len(s.lazy_value_list) <= 1},
        b \in {s \in FakeSequences : Len(s.lazy_value_list) <= 1}}

\* a list, set or tuple literal in a module that calls no method, `append`
\* or `add` on it
LiteralInit ==
    /\ \E l \in Literals :
           sequence = SequenceLiteralValue(LiteralAtom(l.shape, l.items, l.trailing))
    /\ settings \in {s \in Settings : s.dynamic_params_for_other_modules}
    /\ \E used_names \in {<<>>,
                           <<Occurrence("append", <<2, 4>>, <<CallTrailer(Arg_int)>>, TRUE)>>,
                           <<Occurrence("add", <<2, 4>>, <<CallTrailer(Arg_int)>>, TRUE)>>} :
           module_context = [compiled |-> FALSE, used_names |-> used_names]

\* a dict literal
DictInit ==
    /\ \E d \in DictLiterals : sequence = DictLiteralValue(DictAtom(d.entries, d.trailing))
    /\ settings \in {s \in Settings : s.dynamic_params_for_other_modules}
    /\ module_context = [compiled |-> FALSE, used_names |-> <<>>]

\* a synthetic sequence
FakeInit ==
    /\ \E array_type \in {"list", "tuple"} :
       \E lazy_value_list \in SeqsUpTo(KnownLazies, MaxElems) :
           sequence = FakeSequence(array_type, lazy_value_list)
    /\ settings \in {s \in Settings : s.dynamic_params_for_other_modules}
    /\ module_context = [compiled |-> FALSE, used_names |-> <<>>]

\* a list comprehension
ComprehensionInit ==
    /\ sequence \in ListComprehensions
    /\ settings = [dynamic_array_additions |-> TRUE, dynamic_params_for_other_modules |-> TRUE]
    /\ module_context = [compiled |-> FALSE, used_names |-> <<>>]

ContainerInit ==
    /\ OverloadIdle
    /\ RecursionIdle
    /\ ExecutionIdle
    /\ LiteralInit \/ DictInit \/ FakeInit \/ ComprehensionInit
    /\ iterated = NotDone
    /\ item = NotDone
    /\ truth = NotDone
    /\ unpacking = NoUnpacking
    /\ unpacked = NotDone

\* `a = []`, `a = {1, x}`, `a = (1, x)` in a module whose used-names index
\* holds occurrences of the method names
ScannerInit ==
    /\ OverloadIdle
    /\ RecursionIdle
    /\ ExecutionIdle
    /\ \E l \in {[shape |-> "[", items |-> <<>>, trailing |-> FALSE],
                 [shape |-> "{", items |-> <<Item_number, Item_name>>, trailing |-> FALSE],
                 [shape |-> "(", items |-> <<Item_number, Item_name>>, trailing |-> FALSE]} :
           sequence = SequenceLiteralValue(LiteralAtom(l.shape, l.items, l.trailing))
    /\ settings \in Settings
    /\ \E compiled \in BOOLEAN :
       \E used_names \in SeqsUpTo(Occurrences, MaxUses) :
           module_context = [compiled |-> compiled, used_names |-> used_names]
    /\ iterated = NotDone
    /\ item = NotDone
    /\ truth = NotDone
    /\ unpacking = NoUnpacking
    /\ unpacked = NotDone

\* the container is iterated to its end
PyIter ==
    /\ iterated = NotDone
    /\ \E r \in {py__iter__(sequence, settings, module_context)} :
           /\ iterated' = [done |-> TRUE, yielded |-> r.yielded, raised |-> r.raised]
           /\ settings' = r.settings
    /\ UNCHANGED <<sequence, module_context, item, truth, unpacking, unpacked>>
    /\ UNCHANGED <<overload_vars, execution_vars, recursion_vars>>

\* the container is indexed
PySimpleGetitem ==
    /\ item = NotDone
    /\ \E index \in Indexes :
           item' = [done |-> TRUE, index |-> index] @@ py__simple_getitem__(sequence, index)
    /\ UNCHANGED <<sequence, settings, module_context, iterated, truth, unpacking, unpacked>>
    /\ UNCHANGED <<overload_vars, execution_vars, recursion_vars>>

ContainerNext == PyIter \/ PySimpleGetitem

SpecContainer == ContainerInit /\ [][ContainerNext]_vars

ScannerNext == PyIter

SpecScanner == ScannerInit /\ [][ScannerNext]_vars

(***************************************************************************)
(* What the source text of a literal holds, read off the tree without      *)
(* get_tree_entries: the comma-separated items in source order, and the    *)
(* key: value slots of a dict.                                             *)
(***************************************************************************)
ItemLevelNodes(atom) ==
    Range(atom.children) \cup UNION {Range(c.children) : c \in Range(atom.children)}

\* the comma-separated items of a list, set or tuple literal
SourceItems(atom) ==
    LET items == {n \in ItemLevelNodes(atom) : n.pos > 0}
    IN  [i \in 1..Cardinality(items) |-> CHOOSE n \in items : n.pos = i]

\* the children of the dictorsetmaker of a dict literal
DictMakerChildren(atom) ==
    IF Len(atom.children) = 3 THEN atom.children[2].children ELSE <<>>

\* the places of the keys of the key: value slots among these children
KeySlots(atom) ==
    LET ch == DictMakerChildren(atom)
    IN  {i \in 1..(Len(ch) - 2) : IsOperator(ch[i + 1], {":"})}

\* lazy is the lazy element of item: it infers the item's node, or it is the
\* slice object of a slicing item
IsLazyOf(lazy, node) ==
    \/ lazy.cls = "LazyTreeValue" /\ lazy.data = node
    \/ /\ IsOperator(node, {":"}) \/ node.type = "subscript"
       /\ lazy = LazyKnownValue(SliceValue)

DictIndexed == item.done /\ sequence.cls = "DictLiteralValue"
DictIterated == iterated.done /\ sequence.cls = "DictLiteralValue"
LiteralIteratedDisabled ==
    /\ iterated.done
    /\ sequence.cls = "SequenceLiteralValue"
    /\ sequence.array_type \in {"list", "set", "tuple"}
    /\ ~settings.dynamic_array_additions
FakeIterated == iterated.done /\ sequence.cls = "FakeSequence"

(***************************************************************************)
(* C2 -- get_item of a dict literal: the first equal key wins.             *)
(***************************************************************************)
\* the key slots one of whose inferred key values equals the index
EqualKeySlots ==
    {i \in KeySlots(sequence.atom) :
        \E k \in DictMakerChildren(sequence.atom)[i].vals : NativeEq(k, item.index)}

YieldsExactly(items) ==
    /\ ~iterated.raised
    /\ Len(iterated.yielded) = Len(items)
    /\ \A i \in 1..Len(items) : IsLazyOf(iterated.yielded[i], items[i])

\* C3 as stated: with the dynamic-additions feature disabled, iterating a
\* list, set or tuple literal yields exactly one lazy element per literal
\* element position, in source order, and nothing else.
C3_OnePerElementPosition ==
    LiteralIteratedDisabled => YieldsExactly(SourceItems(sequence.atom))

IsNotBracketedStar(node) == ~(sequence.atom.type = "atom" /\ node.type = "star_expr")

\* C3 amended: one lazy element per element position that is not a star
\* unpacking (`*x`) inside a bracketed literal, in source order, and nothing
\* else; a bracketed star unpacking yields nothing.
C3_OnePerKeptPosition ==
    LiteralIteratedDisabled =>
        YieldsExactly(SelectSeq(SourceItems(sequence.atom), IsNotBracketedStar))

\* `[*y, 1, x]` and `*y, 1` iterated: a star unpacking beside other items
C3_StarBesideItemsIterated ==
    /\ LiteralIteratedDisabled
    /\ \E i, j \in 1..Len(SourceItems(sequence.atom)) :
           /\ SourceItems(sequence.atom)[i].type = "star_expr"
           /\ SourceItems(sequence.atom)[j].type # "star_expr"
    /\ Len(iterated.yielded) >= 1

(***************************************************************************)
(* C4 -- iteration of a dict literal.                                      *)
(***************************************************************************)
\* the union of the inferred values of the keys of all slots
AllKeyValues ==
    UNION {DictMakerChildren(sequence.atom)[i].vals : i \in KeySlots(sequence.atom)}

\* C4 as stated: iterating a dict literal yields one lazy entry per
\* syntactic key slot: as many entries as the literal has key: value entries.
C4_OnePerKeySlot ==
    DictIterated => Len(iterated.yielded) = Cardinality(KeySlots(sequence.atom))

\* C4 amended: iterating a dict literal yields keys only: one lazy entry per
\* distinct value of the union of the inferred values of all keys, each
\* entry holding that whole union; equal key values of different slots are
\* merged and a key that infers to nothing yields nothing.
C4_OnePerDistinctKeyValue ==
    DictIterated =>
        /\ ~iterated.raised
        /\ Len(iterated.yielded) = Cardinality(AllKeyValues)
        /\ \A i \in 1..Len(iterated.yielded) :
               iterated.yielded[i] = LazyKnownValues(AllKeyValues)

\* `{2: 1, k: 'x'}` iterated, k inferring to 2 or an instance: two slots
\* share a key value
C4_SharedKeyValueIterated ==
    /\ DictIterated
    /\ \E i, j \in KeySlots(sequence.atom) :
           /\ i < j
           /\ DictMakerChildren(sequence.atom)[i].vals
                  \cap DictMakerChildren(sequence.atom)[j].vals # {}
    /\ Len(iterated.yielded) >= 2

(***************************************************************************)
(* C5 -- round trip of a synthetic sequence.                               *)
(***************************************************************************)
\* C5: iterating FakeSequence(array_type, L) yields exactly the entries of
\* L, in the same order, with no loss or duplication, and forcing the i-th
\* yielded entry gives the i-th value set.
C5_FakeSequenceRoundTrip ==
    FakeIterated =>
        /\ ~iterated.raised
        /\ Len(iterated.yielded) = Len(sequence.lazy_value_list)
        /\ \A i \in 1..Len(sequence.lazy_value_list) :
               /\ iterated.yielded[i] = sequence.lazy_value_list[i]
               /\ LazyInfer(iterated.yielded[i]) = sequence.lazy_value_list[i].data

\* a synthetic sequence of three entries, two of them equal, iterated
C5_RepeatedEntryIterated ==
    /\ FakeIterated
    /\ Len(sequence.lazy_value_list) >= 3
    /\ sequence.lazy_value_list[1] = sequence.lazy_value_list[3]
    /\ sequence.lazy_value_list[1] # sequence.lazy_value_list[2]

(***************************************************************************)
(* C6, C7, C8 -- the array-additions scanner.                              *)
(***************************************************************************)
\* an occurrence is a call site with an argument inside the context's span
IsCallSite(o) ==
    /\ PosLess(ContextStart, o.start_pos) /\ PosLess(o.start_pos, ContextEnd)
    /\ o.following # <<>>
    /\ o.following[1].type = "trailer"
    /\ IsOperator(o.following[1].children[1], {"("})
    /\ ~IsOperator(o.following[1].children[2], {")"})

\* the arguments the module appends to the container under inference
AppendedArguments ==
    {o.following[1].children[2] :
        o \in {u \in Range(module_context.used_names) :
                  u.name = "append" /\ IsCallSite(u) /\ u.receiver_is_sequence}}

ListScanned ==
    /\ iterated.done
    /\ sequence.cls = "SequenceLiteralValue"
    /\ sequence.array_type = "list"
    /\ settings.dynamic_array_additions
    /\ ~module_context.compiled

\* the lazy elements yielded after those of the literal's own items
YieldedAdditions ==
    {iterated.yielded[i] :
        i \in (Len(SourceItems(sequence.atom)) + 1)..Len(iterated.yielded)}

\* C6: with the feature enabled, for `a = []` followed by `a.append(1)` and
\* `a.append("x")`, iterating `a` yields, after its literal elements, lazy
\* elements resolving to the int and to the string argument.
C6_AppendedArgumentsAreYielded ==
    (ListScanned /\ AppendedArguments = {Arg_int, Arg_str}) =>
        /\ ~iterated.raised
        /\ \E lazy \in YieldedAdditions : LazyInfer(lazy) = Arg_int.vals
        /\ \E lazy \in YieldedAdditions : LazyInfer(lazy) = Arg_str.vals

\* the method names the scanner searches for the container
RelevantNames ==
    IF sequence.array_type = "list" THEN {"append", "extend", "insert"} ELSE {"add", "update"}

ScannerSwitchedOff ==
    \/ ~settings.dynamic_array_additions
    \/ sequence.array_type \notin {"list", "set"}
    \/ module_context.compiled
    \/ \A o \in Range(module_context.used_names) : o.name \notin RelevantNames

\* C7: the scanner contributes no element to the iteration (and raises
\* nothing) whenever the dynamic_array_additions flag is off, the array_type
\* is not list or set, the root module is compiled, or the used-names index
\* has no occurrence of the relevant method names.
C7_ScannerContributesNothing ==
    (iterated.done /\ sequence.cls = "SequenceLiteralValue" /\ ScannerSwitchedOff) =>
        /\ ~iterated.raised
        /\ YieldedAdditions = {}
        /\ Len(iterated.yielded) = Len(get_tree_entries(sequence))

\* the flag is off in a module that appends to the list under inference
C7_FlagOffWithAppend ==
    /\ iterated.done
    /\ sequence.array_type = "list"
    /\ ~settings.dynamic_array_additions
    /\ ~module_context.compiled
    /\ AppendedArguments # {}

\* C8: for the self-referential `a = []; a.append(a)` with the feature
\* enabled, inferring the elements of `a` ends with a finite value set, not
\* with an error.
C8_SelfAppendEndsWithoutError ==
    (ListScanned /\ Arg_self \in AppendedArguments) => ~iterated.raised

(***************************************************************************)
(* function.py: FunctionExecutionContext.  The tree of the executed        *)
(* function: the statements of its body that hold yields, in textual       *)
(* order, and its return statements.                                       *)
(***************************************************************************)
\* statements holding yields in one function body
MaxStmts == 2
\* yields in the body of one loop
MaxYields == 2
\* return statements of one function
MaxReturns == 2

\* compiled.builtin_from_name(self.inference_state, u'None')
V_None == [cls |-> "CompiledObject", py |-> "NoneType", safe |-> 0]
\* what the annotation and the docstring subsystems answer with
V_annotated == [cls |-> "TreeValue", py |-> "annotated", safe |-> 0]
V_documented == [cls |-> "TreeValue", py |-> "documented", safe |-> 0]

\* `yield`, `yield <node>`, `yield from <node>`
Yield_keyword == Keyword("yield")
YieldExpr(node) == Inner("yield_expr", <<Keyword("yield"), node>>)
YieldFrom(node) == YieldExpr(Inner("yield_arg", <<Keyword("from"), node>>))

YieldKinds ==
    {Yield_keyword, YieldExpr(Number_1), YieldExpr(Number_2), YieldExpr(Name_x),
     YieldFrom(Tuple_1_2)}
LoopYieldKinds == {YieldExpr(Name_x), YieldFrom(Tuple_1_2)}

\* a statement of the body with the yields under it; parent is what the
\* statement's parent is once a suite is stepped over
Stmt(type, parent, children, yields) ==
    [type |-> type, parent |-> parent, children |-> children, yields |-> yields]
\* a yield that is a statement of the body itself
YieldStmt(y) == Stmt("expr_stmt", "funcdef", <<>>, <<y>>)
\* `for <target> in <testlist>: <yields>`
ForStmt(parent, target, testlist, yields) ==
    Stmt("for_stmt", parent, <<Keyword("for"), target, Keyword("in"), testlist>>, yields)

\* loops the ordering follows: one name, directly in the function body
SimpleForStmts ==
    {ForStmt("funcdef", Name_x, testlist, yields) :
        testlist \in {Tuple_1_2, Tuple_empty},
        yields \in SeqsUpTo(LoopYieldKinds, MaxYields) \ {<<>>}}
\* what the ordering does not follow: a loop inside another statement, a
\* loop with two names, a while loop, an if statement
OtherStmts ==
    {ForStmt("for_stmt", Name_x, Tuple_1_2, <<YieldExpr(Number_1)>>),
     ForStmt("funcdef", Exprlist_x_y, Tuple_1_2, <<YieldExpr(Number_1)>>),
     Stmt("while_stmt", "funcdef", <<>>, <<YieldExpr(Number_1)>>),
     Stmt("if_stmt", "funcdef", <<>>, <<YieldExpr(Number_1)>>)}
BodyStmts == {YieldStmt(y) : y \in YieldKinds} \cup SimpleForStmts \cup OtherStmts

\* `return` and `return <node>`
Return_keyword == Keyword("return")
ReturnStmt(node) == Inner("return_stmt", <<Keyword("return"), node>>)
ReturnKinds == {Return_keyword, ReturnStmt(Number_1), ReturnStmt(String_s)}

\* def f(...): with the statements of the body that hold yields, and the
\* return statements, both in textual order
Funcdef(body, returns) ==
    [type |-> "funcdef", children |-> <<>>, body |-> body, returns |-> returns]
\* lambda: <node>
LambdefNode(node) ==
    [type |-> "lambdef", children |-> <<Keyword("lambda"), Operator(":"), node>>,
     body |-> <<>>, returns |-> <<>>]

\* FunctionExecutionContext(function_value, var_args), with what the
\* annotation and the docstring of the function give for its return
FunctionExecutionContext(tree_node, annotation, docstring) ==
    [cls |-> "FunctionExecutionContext", tree_node |-> tree_node,
     annotation |-> annotation, docstring |-> docstring]

\* flow_analysis: the three outcomes of a reachability check
REACHABLE == "REACHABLE"
UNREACHABLE == "UNREACHABLE"
UNKNOWN == "UNKNOWN"
Checks == {REACHABLE, UNREACHABLE, UNKNOWN}

(***************************************************************************)
(* get_return_values and the yield ordering of get_yield_lazy_values.      *)
(* The outcomes of the reachability checks are inputs of the operators.    *)
(***************************************************************************)
\* the value set a lazy value infers to while the given names are predefined
\* in the execution context (helpers.predefine_names)
InferPredefined(lazy, predefined_names) ==
    IF /\ lazy.cls = "LazyTreeValue"
       /\ lazy.data.type = "name"
       /\ \E b \in Range(predefined_names) : b.name = lazy.data.value
    THEN (CHOOSE b \in Range(predefined_names) : b.name = lazy.data.value).values
    ELSE LazyInfer(lazy)

\* def _get_yield_lazy_value(self, yield_expr)
_get_yield_lazy_value(yield_expr) ==
    IF yield_expr.type = "keyword"
    THEN <<LazyKnownValue(V_None)>>
    ELSE LET node == yield_expr.children[2]
         IN  IF node.type = "yield_arg"
             THEN node.children[2].iterates
             ELSE <<LazyTreeValue(node)>>

\* the funcdef as the ancestor of a yield, and no node at all
TreeNodeRef == [id |-> 0, type |-> "funcdef", parent |-> "file_input", children |-> <<>>]
None == [id |-> -1, type |-> "None", parent |-> "", children |-> <<>>]

\* tree.search_ancestor(y, 'for_stmt', 'funcdef', 'while_stmt', 'if_stmt') for
\* a yield under statement i of the body
search_ancestor(tree_node, i) ==
    LET s == tree_node.body[i]
    IN  IF s.type \in {"for_stmt", "while_stmt", "if_stmt"}
        THEN [id |-> i, type |-> s.type, parent |-> s.parent, children |-> s.children]
        ELSE TreeNodeRef

\* [(y, tree.search_ancestor(y, ...)) for y in get_yield_exprs(...)], from
\* statement i on; stmt is the statement of the body the yield is under
RECURSIVE ForParents(_, _)
ForParents(tree_node, i) ==
    IF i > Len(tree_node.body) THEN <<>>
    ELSE LET yields == tree_node.body[i].yields
         IN  [j \in 1..Len(yields) |->
                 [yield_ |-> yields[j], for_stmt |-> search_ancestor(tree_node, i),
                  stmt |-> i]]
             \o ForParents(tree_node, i + 1)

\* parser_utils.for_stmt_defines_one_name(for_stmt)
for_stmt_defines_one_name(for_stmt) == for_stmt.children[2].type = "name"

\* an ordering that opens a group for every yield of a loop
RECURSIVE YieldsOrderLoop_GroupPerYield(_, _, _, _)
YieldsOrderLoop_GroupPerYield(for_parents, i, yields_order, last_for_stmt) ==
    IF i > Len(for_parents) THEN [fallback |-> FALSE, yields_order |-> yields_order]
    ELSE LET yield_ == for_parents[i].yield_
             for_stmt == for_parents[i].for_stmt
         IN  IF /\ for_stmt.type = "for_stmt"
                /\ for_stmt.parent = "funcdef"
                /\ for_stmt_defines_one_name(for_stmt)
             THEN YieldsOrderLoop_GroupPerYield(for_parents, i + 1,
                      Append(yields_order, [for_stmt |-> for_stmt, yields |-> <<yield_>>]),
                      for_stmt)
             ELSE IF for_stmt = TreeNodeRef
             THEN YieldsOrderLoop_GroupPerYield(for_parents, i + 1,
                      Append(yields_order, [for_stmt |-> None, yields |-> <<yield_>>]),
                      for_stmt)
             ELSE [fallback |-> TRUE, yields_order |-> yields_order]

\* get_yield_lazy_values: "Calculate if the yields are placed within the same
\* for loop", from entry i of for_parents on; fallback when a yield is under
\* something the ordering does not follow
RECURSIVE YieldsOrderLoop(_, _, _, _)
YieldsOrderLoop(for_parents, i, yields_order, last_for_stmt) ==
    IF i > Len(for_parents) THEN [fallback |-> FALSE, yields_order |-> yields_order]
    ELSE LET yield_ == for_parents[i].yield_
             for_stmt == for_parents[i].for_stmt
             n == Len(yields_order)
         IN  IF /\ for_stmt.type = "for_stmt"
                /\ for_stmt.parent = "funcdef"
                /\ for_stmt_defines_one_name(for_stmt)
             THEN IF for_stmt = last_for_stmt
                  THEN YieldsOrderLoop(for_parents, i + 1,
                           [yields_order EXCEPT ![n].yields = Append(@, yield_)],
                           for_stmt)
                  ELSE YieldsOrderLoop(for_parents, i + 1,
                           Append(yields_order,
                                  [for_stmt |-> for_stmt, yields |-> <<yield_>>]),
                           for_stmt)
             ELSE IF for_stmt = TreeNodeRef
             THEN YieldsOrderLoop(for_parents, i + 1,
                      Append(yields_order, [for_stmt |-> None, yields |-> <<yield_>>]),
                      for_stmt)
             ELSE [fallback |-> TRUE, yields_order |-> yields_order]

\* a scan that does not stop at a reachable return
RECURSIVE ReturnsLoop_NoBreak(_, _, _, _, _, _)
ReturnsLoop_NoBreak(returns, checks, i, value_set, check_yields, scanned) ==
    IF i > Len(returns) THEN [value_set |-> value_set, scanned |-> scanned]
    ELSE LET r == returns[i]
             found ==
                 IF checks[i] = UNREACHABLE THEN NO_VALUES
                 ELSE IF check_yields
                 THEN UNION {LazyInfer(lazy_value) :
                                lazy_value \in Range(_get_yield_lazy_value(r))}
                 ELSE IF r.children = <<>> THEN {V_None}
                 ELSE infer_node(r.children[2])
         IN  ReturnsLoop_NoBreak(returns, checks, i + 1, value_set \cup found,
                                 check_yields, Append(scanned, i))

\* the `for r in returns` loop of get_return_values from entry i on; checks
\* holds the outcome of the reachability check of every entry and scanned
\* the entries the loop has looked at
RECURSIVE ReturnsLoop(_, _, _, _, _, _)
ReturnsLoop(returns, checks, i, value_set, check_yields, scanned) ==
    IF i > Len(returns) THEN [value_set |-> value_set, scanned |-> scanned]
    ELSE LET r == returns[i]
             check == checks[i]
             found ==
                 IF check = UNREACHABLE THEN NO_VALUES
                 ELSE IF check_yields
                 THEN UNION {LazyInfer(lazy_value) :
                                lazy_value \in Range(_get_yield_lazy_value(r))}
                 ELSE IF r.children = <<>> THEN {V_None}
                 ELSE infer_node(r.children[2])
         IN  IF check = REACHABLE
             THEN [value_set |-> value_set \cup found, scanned |-> Append(scanned, i)]
             ELSE ReturnsLoop(returns, checks, i + 1, value_set \cup found,
                              check_yields, Append(scanned, i))

\* get_yield_exprs(self.inference_state, funcdef)
get_yield_exprs(funcdef) ==
    LET for_parents == ForParents(funcdef, 1)
    IN  [k \in 1..Len(for_parents) |-> for_parents[k].yield_]

\* what get_return_values hands back, with what it asked on the way
ReturnResult(value_set, annotation, docstring, scanned) ==
    [value_set |-> value_set,
     consulted |-> [annotation |-> annotation, docstring |-> docstring,
                    returns |-> scanned]]

\* a return-value computation that adds the statements to the annotation
get_return_values_KeepsScanning(self, check_yields, checks) ==
    LET funcdef == self.tree_node
    IN  IF funcdef.type = "lambdef"
        THEN ReturnResult(infer_node(funcdef.children[Len(funcdef.children)]),
                          FALSE, FALSE, <<>>)
        ELSE IF check_yields
        THEN LET r == ReturnsLoop(get_yield_exprs(funcdef), checks, 1, NO_VALUES, TRUE, <<>>)
             IN  ReturnResult(r.value_set, FALSE, FALSE, r.scanned)
        ELSE LET r == ReturnsLoop(funcdef.returns, checks, 1,
                                  self.annotation \cup self.docstring, FALSE, <<>>)
             IN  ReturnResult(r.value_set, TRUE, TRUE, r.scanned)

\* def get_return_values(self, check_yields=False)
get_return_values(self, check_yields, checks) ==
    LET funcdef == self.tree_node
    IN  IF funcdef.type = "lambdef"
        THEN ReturnResult(infer_node(funcdef.children[Len(funcdef.children)]),
                          FALSE, FALSE, <<>>)
        ELSE IF check_yields
        THEN LET r == ReturnsLoop(get_yield_exprs(funcdef), checks, 1, NO_VALUES, TRUE, <<>>)
             IN  ReturnResult(r.value_set, FALSE, FALSE, r.scanned)
        ELSE LET value_set == self.annotation
             IN  IF value_set # NO_VALUES
                 THEN ReturnResult(value_set, TRUE, FALSE, <<>>)
                 ELSE LET r == ReturnsLoop(funcdef.returns, checks, 1,
                                           value_set \cup self.docstring, FALSE, <<>>)
                      IN  ReturnResult(r.value_set, TRUE, TRUE, r.scanned)

\* what get_yield_lazy_values has handed over and, in trace, the loops it
\* iterated and the names it predefined, in the order it did so
NoResults == [values |-> <<>>, trace |-> <<>>]
Event(op, for_stmt, dct) == [op |-> op, for_stmt |-> for_stmt.id, dct |-> dct]

\* `for result in self._get_yield_lazy_value(yield_): yield result` for the
\* yields from entry i on; every lazy value is handed over together with the
\* names predefined at that moment
RECURSIVE YieldResults(_, _, _)
YieldResults(yields, i, predefined_names) ==
    IF i > Len(yields) THEN <<>>
    ELSE LET lazies == _get_yield_lazy_value(yields[i])
         IN  [k \in 1..Len(lazies) |->
                 [lazy |-> lazies[k], predefined_names |-> predefined_names]]
             \o YieldResults(yields, i + 1, predefined_names)

\* `for lazy_value in ordered:` from element k on
RECURSIVE ForStmtResults(_, _, _, _)
ForStmtResults(for_stmt, yields, ordered, k) ==
    IF k > Len(ordered) THEN NoResults
    ELSE LET dct == <<[name |-> for_stmt.children[2].value,
                       values |-> LazyInfer(ordered[k])]>>
             rest == ForStmtResults(for_stmt, yields, ordered, k + 1)
         IN  [values |-> YieldResults(yields, 1, dct) \o rest.values,
              trace |-> <<Event("predefine_names", for_stmt, dct)>> \o rest.trace]

\* `for for_stmt, yields in yields_order:` from group g on
RECURSIVE YieldsOrderResults(_, _)
YieldsOrderResults(yields_order, g) ==
    IF g > Len(yields_order) THEN NoResults
    ELSE LET for_stmt == yields_order[g].for_stmt
             yields == yields_order[g].yields
             rest == YieldsOrderResults(yields_order, g + 1)
         IN  IF for_stmt = None
             THEN [values |-> YieldResults(yields, 1, <<>>) \o rest.values,
                   trace |-> rest.trace]
             ELSE LET input_node == for_stmt.children[4]
                      ordered == input_node.iterates
                      r == ForStmtResults(for_stmt, yields, ordered, 1)
                  IN  [values |-> r.values \o rest.values,
                       trace |-> <<Event("iterate", for_stmt, <<>>)>>
                                 \o r.trace \o rest.trace]

\* def get_yield_lazy_values(self, is_async=False), consumed to its end; flow
\* gives, for every statement of the body, the outcome of the reachability
\* check of the yields under it
get_yield_lazy_values(self, flow) ==
    LET for_parents == ForParents(self.tree_node, 1)
        order == YieldsOrderLoop(for_parents, 1, <<>>, None)
    IN  IF order.fallback
        THEN LET checks == [k \in 1..Len(for_parents) |-> flow[for_parents[k].stmt]]
                 types == get_return_values(self, TRUE, checks).value_set
             IN  [ordered |-> FALSE,
                  values |-> IF types # NO_VALUES
                             THEN <<[lazy |-> LazyKnownValues(types),
                                     predefined_names |-> <<>>]>>
                             ELSE <<>>,
                  trace |-> <<>>]
        ELSE [ordered |-> TRUE] @@ YieldsOrderResults(order.yields_order, 1)

\* def merge_yield_values(self, is_async=False)
merge_yield_values(self, flow) ==
    UNION {InferPredefined(v.lazy, v.predefined_names) :
              v \in Range(get_yield_lazy_values(self, flow).values)}

(***************************************************************************)
(* Executions: a generator whose yields are asked for, and a function      *)
(* whose return values are asked for.                                      *)
(***************************************************************************)
GeneratorInit ==
    /\ OverloadIdle
    /\ RecursionIdle
    /\ ContainerIdle
    /\ \E body \in SeqsUpTo(BodyStmts, MaxStmts) \ {<<>>} :
           execution_context = FunctionExecutionContext(Funcdef(body, <<>>), {}, {})
    /\ yield_lazy_values = NotDone
    /\ yield_values = NotDone
    /\ return_values = NotDone
    /\ environment = [version_info |-> Version(3, 8)]
    /\ inferred = NotDone

ReturnInit ==
    /\ OverloadIdle
    /\ RecursionIdle
    /\ ContainerIdle
    /\ \E tree_node \in
           {Funcdef(body, returns) :
               body \in SeqsUpTo({YieldStmt(y) : y \in {Yield_keyword, YieldExpr(Number_2),
                                                        YieldFrom(Tuple_1_2)}}, 1),
               returns \in SeqsUpTo(ReturnKinds, MaxReturns)}
           \cup {LambdefNode(node) : node \in {Number_1, String_s}} :
       \E annotation \in {{}, {V_annotated}} :
       \E docstring \in {{}, {V_documented}} :
           execution_context = FunctionExecutionContext(tree_node, annotation, docstring)
    /\ yield_lazy_values = NotDone
    /\ yield_values = NotDone
    /\ return_values = NotDone
    /\ environment = [version_info |-> Version(3, 8)]
    /\ inferred = NotDone

\* the outcomes the reachability checks of an execution's yields may have,
\* statement by statement; no check is made while the ordering is followed
Flows(self) ==
    IF YieldsOrderLoop(ForParents(self.tree_node, 1), 1, <<>>, None).fallback
    THEN [1..Len(self.tree_node.body) -> Checks]
    ELSE {[i \in 1..Len(self.tree_node.body) |-> UNKNOWN]}

\* the generator's yields are merged into one value set: its lazy values are
\* asked for, consumed to the end, and each is inferred as it is handed over
MergeYieldValues ==
    /\ yield_values = NotDone
    /\ \E flow \in Flows(execution_context) :
           /\ yield_lazy_values' =
                  [done |-> TRUE, flow |-> flow]
                  @@ get_yield_lazy_values(execution_context, flow)
           /\ yield_values' =
                  [done |-> TRUE, value_set |-> merge_yield_values(execution_context, flow)]
    /\ UNCHANGED <<execution_context, return_values, environment, inferred>>
    /\ UNCHANGED <<overload_vars, container_vars, recursion_vars>>

\* the return values of the execution are asked for
GetReturnValues ==
    /\ return_values = NotDone
    /\ \E check_yields \in BOOLEAN :
       LET funcdef == execution_context.tree_node
           n == IF check_yields THEN Len(get_yield_exprs(funcdef)) ELSE Len(funcdef.returns)
       IN  \E checks \in [1..n -> Checks] :
               return_values' =
                   [done |-> TRUE, check_yields |-> check_yields, checks |-> checks]
                   @@ get_return_values(execution_context, check_yields, checks)
    /\ UNCHANGED <<execution_context, yield_lazy_values, yield_values, environment, inferred>>
    /\ UNCHANGED <<overload_vars, container_vars, recursion_vars>>

GeneratorNext == MergeYieldValues

SpecGenerator == GeneratorInit /\ [][GeneratorNext]_vars

ReturnNext == GetReturnValues

SpecReturn == ReturnInit /\ [][ReturnNext]_vars

(***************************************************************************)
(* C9 -- generator ordering.  The order is stated statement by statement   *)
(* over the body, without the grouping pass of get_yield_lazy_values.      *)
(***************************************************************************)
RECURSIVE Flat(_)
Flat(ss) == IF Len(ss) = 0 THEN <<>> ELSE Head(ss) \o Flat(Tail(ss))

TheBody == execution_context.tree_node.body

IsYieldFrom(y) == y.type = "yield_expr" /\ y.children[2].type = "yield_arg"

\* a statement the ordering follows: a yield of the body itself, or a
\* one-name for loop that is a direct child of the body
IsBodyYield(s) == s.type = "expr_stmt"
IsSimpleFor(s) ==
    s.type = "for_stmt" /\ s.parent = "funcdef" /\ s.children[2].type = "name"
OrderingFollows == \A i \in DOMAIN TheBody : IsBodyYield(TheBody[i]) \/ IsSimpleFor(TheBody[i])

\* the lazy values of one yield: None for a bare yield, the expression for
\* `yield <expr>`, and for `yield from` those of iterating its operand
LaziesOfYield(y) ==
    IF y.type = "keyword" THEN <<LazyKnownValue(V_None)>>
    ELSE IF IsYieldFrom(y) THEN y.children[2].children[2].iterates
    ELSE <<LazyTreeValue(y.children[2])>>

\* the same with exactly one lazy value for every yield
OneLazyOfYield(y) ==
    IF IsYieldFrom(y) THEN <<LazyTreeValue(y.children[2])>> ELSE LaziesOfYield(y)

Handed(lazies, names) ==
    [k \in DOMAIN lazies |-> [lazy |-> lazies[k], predefined_names |-> names]]

Binding(s, element) ==
    <<[name |-> s.children[2].value, values |-> LazyInfer(element)]>>

\* what one statement hands over: a body yield its lazy values (one each when
\* single), a loop -- for each element of its iterable in order, with the
\* loop variable bound to the element's values -- those of each of its yields
\* in textual order
StmtValues(s, single) ==
    IF IsBodyYield(s)
    THEN Handed(IF single THEN OneLazyOfYield(s.yields[1]) ELSE LaziesOfYield(s.yields[1]),
                <<>>)
    ELSE LET elements == s.children[4].iterates
         IN  Flat([e \in DOMAIN elements |->
                     Flat([j \in DOMAIN s.yields |->
                             Handed(LaziesOfYield(s.yields[j]),
                                    Binding(s, elements[e]))])])

\* what one statement does to the names: a loop is iterated once, then the
\* loop variable is bound to each element in order
StmtTrace(s, i) ==
    IF IsBodyYield(s) THEN <<>>
    ELSE LET elements == s.children[4].iterates
         IN  <<[op |-> "iterate", for_stmt |-> i, dct |-> <<>>]>>
             \o [e \in DOMAIN elements |->
                    [op |-> "predefine_names", for_stmt |-> i,
                     dct |-> Binding(s, elements[e])]]

ClaimedValues(single) == Flat([i \in DOMAIN TheBody |-> StmtValues(TheBody[i], single)])
ClaimedTrace == Flat([i \in DOMAIN TheBody |-> StmtTrace(TheBody[i], i)])
MergeOf(values) == UNION {InferPredefined(v.lazy, v.predefined_names) : v \in Range(values)}

OrderedAs(single) ==
    /\ (yield_lazy_values.done /\ OrderingFollows) =>
           /\ yield_lazy_values.values = ClaimedValues(single)
           /\ yield_lazy_values.trace = ClaimedTrace
    /\ (yield_values.done /\ OrderingFollows) =>
           yield_values.value_set = MergeOf(ClaimedValues(single))

\* C9 as stated: the statements of the body hand over in textual order; a
\* yield of the body itself hands over one lazy value; a one-name for loop
\* directly in the body is iterated once and, for each element in order, binds
\* its variable to the element's values while each of its yields is inferred
\* in textual order; the merge is the union of what was handed over.
C9_OneLazyValuePerYield == OrderedAs(TRUE)

\* C9 amended: the same, except that a `yield from` of the body hands over
\* the lazy values of iterating its operand -- none, one or several -- where a
\* bare `yield` or a `yield <expr>` hands over exactly one.
C9_YieldFromHandsOverItsElements == OrderedAs(FALSE)

\* `for x in (1, 2): yield x; yield from (1, 2)` followed by a
\* `yield from (1, 2)` of the body: x was bound to {1}, then to {2}
C9_LoopThenYieldFrom ==
    /\ yield_lazy_values.done
    /\ yield_values.done
    /\ TheBody = <<ForStmt("funcdef", Name_x, Tuple_1_2,
                           <<YieldExpr(Name_x), YieldFrom(Tuple_1_2)>>),
                   YieldStmt(YieldFrom(Tuple_1_2))>>
    /\ Len(yield_lazy_values.values) = 8
    /\ yield_lazy_values.trace =
           <<[op |-> "iterate", for_stmt |-> 1, dct |-> <<>>],
             [op |-> "predefine_names", for_stmt |-> 1,
              dct |-> <<[name |-> "x", values |-> {V_int1}]>>],
             [op |-> "predefine_names", for_stmt |-> 1,
              dct |-> <<[name |-> "x", values |-> {V_int2}]>>]>>
    /\ yield_values.value_set = {V_int1, V_int2}

(***************************************************************************)
(* C10 -- an annotated return type takes precedence.                       *)
(***************************************************************************)
ReturnsAsked ==
    /\ return_values.done
    /\ ~return_values.check_yields
    /\ execution_context.tree_node.type = "funcdef"

\* the return statements that count: not unreachable, and not after one
\* that is reachable
CountedReturns ==
    {i \in DOMAIN execution_context.tree_node.returns :
        /\ return_values.checks[i] # UNREACHABLE
        /\ \A j \in 1..(i - 1) : return_values.checks[j] # REACHABLE}

ValuesOfReturn(r) == IF r.type = "keyword" THEN {V_None} ELSE r.children[2].vals

\* C10: computing the return values (check_yields false) of a non-lambda
\* function, a non-empty annotation set is the result, unchanged, and neither
\* the docstring nor any return statement is consulted; with an empty
\* annotation set the result is the union of the docstring's hints and the
\* values of the return statements.
C10_AnnotationTakesPrecedence ==
    ReturnsAsked =>
        IF execution_context.annotation # {}
        THEN /\ return_values.value_set = execution_context.annotation
             /\ ~return_values.consulted.docstring
             /\ return_values.consulted.returns = <<>>
        ELSE /\ return_values.consulted.docstring
             /\ return_values.value_set =
                    execution_context.docstring
                    \cup UNION {ValuesOfReturn(execution_context.tree_node.returns[i]) :
                                   i \in CountedReturns}

\* an annotated function with a docstring hint and two returns that count
C10_AnnotatedWithDocstringAndReturns ==
    /\ ReturnsAsked
    /\ execution_context.annotation # {}
    /\ execution_context.docstring # {}
    /\ CountedReturns = {1, 2}

(***************************************************************************)
(* C11 -- the scan of the return statements.                               *)
(***************************************************************************)
TheReturns == execution_context.tree_node.returns

\* the return statements are scanned: nothing was annotated
ReturnsScanned == ReturnsAsked /\ execution_context.annotation = {}

\* the first return classified reachable, or the last return when none is
LastScanned ==
    LET reachable == {i \in DOMAIN TheReturns : return_values.checks[i] = REACHABLE}
    IN  IF reachable = {} THEN Len(TheReturns)
        ELSE CHOOSE i \in reachable : \A j \in reachable : i <= j

\* C11: scanning the return statements in source order, an unreachable return
\* contributes nothing, an unknown one contributes its expression's values
\* (None for a bare return) and the scan goes on, and the first reachable one
\* contributes its values and ends the scan: nothing after it contributes.
C11_ScanStopsAtFirstReachable ==
    ReturnsScanned =>
        /\ return_values.consulted.returns = [i \in 1..LastScanned |-> i]
        /\ \A i \in 1..LastScanned :
               return_values.checks[i] # UNREACHABLE =>
                   ValuesOfReturn(TheReturns[i]) \subseteq return_values.value_set
        /\ \A v \in return_values.value_set \ execution_context.docstring :
               \E i \in 1..LastScanned :
                   /\ return_values.checks[i] # UNREACHABLE
                   /\ v \in ValuesOfReturn(TheReturns[i])

\* `return 1` reachable, then `return "s"`: only the first contributes
C11_ReturnAfterReachable ==
    /\ ReturnsScanned
    /\ TheReturns = <<ReturnStmt(Number_1), ReturnStmt(String_s)>>
    /\ return_values.checks = <<REACHABLE, UNKNOWN>>
    /\ return_values.value_set = {V_int1} \cup execution_context.docstring

(***************************************************************************)
(* function.py: FunctionExecutionContext.infer.                            *)
(***************************************************************************)
\* a funcdef (or lambdef) together with the type of its parent node
WithParent(tree_node, parent_type) == [parent |-> [type |-> parent_type]] @@ tree_node

\* a comparison that looks at the major version only
VersionLess_MajorOnly(a, b) == a[1] < b[1]

\* version_info < (major, minor), as tuples compare
VersionLess(a, b) == a[1] < b[1] \/ (a[1] = b[1] /\ a[2] < b[2])
Versions == {Version(2, 7), Version(3, 4), Version(3, 5), Version(3, 6), Version(3, 7)}

\* value_set.py__class__(): the classes of the values of a set
py__class__(value_set) == {[cls |-> "ClassValue", py |-> v.py] : v \in value_set}

\* inference_state.typing_module.py__getattribute__(name)
TypingClasses(name) == {[cls |-> "ClassValue", py |-> name]}

\* GenericClass(c, generics), and ValueSet(...).execute_annotation()
GenericClass(c, generics) == [cls |-> "GenericClass", klass |-> c, generics |-> generics]
execute_annotation(value_set) == {[cls |-> "instance", of |-> c] : c \in value_set}

\* iterable.Generator(inference_state, func_execution_context)
Generator(func_execution_context) ==
    [cls |-> "Generator", func_execution_context |-> func_execution_context]

\* what infer hands back, with the computations it called on the way
InferResult(value_set, called) == [value_set |-> value_set, called |-> called]

\* def infer(self); flow and checks are the outcomes of the reachability
\* checks of the yields and of the return statements
infer(self, env, flow, checks) ==
    LET is_coroutine == self.tree_node.parent.type \in {"async_stmt", "async_funcdef"}
        is_generator == Len(get_yield_exprs(self.tree_node)) > 0
    IN  IF is_coroutine
        THEN IF is_generator
             THEN IF VersionLess(env.version_info, Version(3, 6))
                  THEN InferResult(NO_VALUES, <<>>)
                  ELSE LET async_generator_classes == TypingClasses("AsyncGenerator")
                           yield_values_ == merge_yield_values(self, flow)
                           generics == <<py__class__(yield_values_), NO_VALUES>>
                       IN  InferResult(
                               execute_annotation({GenericClass(c, generics) :
                                                      c \in async_generator_classes}),
                               <<"merge_yield_values">>)
             ELSE IF VersionLess(env.version_info, Version(3, 5))
                  THEN InferResult(NO_VALUES, <<>>)
                  ELSE LET async_classes == TypingClasses("Coroutine")
                           return_values_ == get_return_values(self, FALSE, checks).value_set
                           generics == <<py__class__(return_values_), NO_VALUES, NO_VALUES>>
                       IN  InferResult(
                               execute_annotation({GenericClass(c, generics) :
                                                      c \in async_classes}),
                               <<"get_return_values">>)
        ELSE IF is_generator
             THEN InferResult({Generator(self)}, <<>>)
             ELSE InferResult(get_return_values(self, FALSE, checks).value_set,
                              <<"get_return_values">>)

\* functions, plain or async, with or without yields, and lambdas, in
\* environments of several versions
InferInit ==
    /\ OverloadIdle
    /\ RecursionIdle
    /\ ContainerIdle
    /\ \E parent_type \in {"file_input", "async_stmt", "async_funcdef"} :
       \E tree_node \in
           {Funcdef(body, returns) :
               body \in {<<>>, <<YieldStmt(YieldExpr(Number_1))>>,
                         <<YieldStmt(YieldExpr(Number_1)), YieldStmt(YieldExpr(Number_2))>>,
                         <<ForStmt("funcdef", Name_x, Tuple_1_2, <<YieldExpr(Name_x)>>)>>,
                         <<Stmt("if_stmt", "funcdef", <<>>, <<YieldExpr(Number_1)>>)>>},
               returns \in SeqsUpTo(ReturnKinds, MaxReturns)}
           \cup {LambdefNode(String_s)} :
       \E annotation \in {{}, {V_annotated}} :
           execution_context =
               FunctionExecutionContext(WithParent(tree_node, parent_type), annotation, {})
    /\ \E version_info \in Versions : environment = [version_info |-> version_info]
    /\ yield_lazy_values = NotDone
    /\ yield_values = NotDone
    /\ return_values = NotDone
    /\ inferred = NotDone

\* the execution is inferred
Infer ==
    /\ inferred = NotDone
    /\ \E flow \in Flows(execution_context) :
       \E checks \in [1..Len(execution_context.tree_node.returns) -> Checks] :
           inferred' = [done |-> TRUE, flow |-> flow, checks |-> checks]
                       @@ infer(execution_context, environment, flow, checks)
    /\ UNCHANGED <<execution_context, yield_lazy_values, yield_values, return_values,
                   environment>>
    /\ UNCHANGED <<overload_vars, container_vars, recursion_vars>>

InferNext == Infer

SpecInfer == InferInit /\ [][InferNext]_vars

(***************************************************************************)
(* C12 -- what infer() returns for the four kinds of execution.            *)
(***************************************************************************)
DeclaredAsync == execution_context.tree_node.parent.type \in {"async_stmt", "async_funcdef"}
HasYield == \E i \in DOMAIN TheBody : TheBody[i].yields # <<>>

\* an instance of the typing class `name` whose first generic holds the
\* classes of the given values
GenericOver(name, value_set, others) ==
    [cls |-> "instance",
     of |-> [cls |-> "GenericClass", klass |-> [cls |-> "ClassValue", py |-> name],
             generics |-> <<{[cls |-> "ClassValue", py |-> v.py] : v \in value_set}>>
                          \o others]]

\* C12: infer() returns, for a plain execution, its return-value set; for a
\* generator, exactly one Generator wrapping the execution, no yield being
\* inferred; for a coroutine, Coroutine over its return values, or nothing
\* below version 3.5; for an async generator, AsyncGenerator over its merged
\* yield values, or nothing below version 3.6.
C12_InferByKind ==
    inferred.done =>
        LET returns_ == get_return_values(execution_context, FALSE, inferred.checks).value_set
            yields_ == merge_yield_values(execution_context, inferred.flow)
            version_info == environment.version_info
        IN  CASE ~DeclaredAsync /\ ~HasYield -> inferred.value_set = returns_
              [] ~DeclaredAsync /\ HasYield ->
                     /\ inferred.value_set = {Generator(execution_context)}
                     /\ inferred.called = <<>>
              [] DeclaredAsync /\ ~HasYield ->
                     inferred.value_set =
                         IF version_info[1] < 3 \/ (version_info[1] = 3 /\ version_info[2] < 5)
                         THEN {}
                         ELSE {GenericOver("Coroutine", returns_, <<{}, {}>>)}
              [] DeclaredAsync /\ HasYield ->
                     inferred.value_set =
                         IF version_info[1] < 3 \/ (version_info[1] = 3 /\ version_info[2] < 6)
                         THEN {}
                         ELSE {GenericOver("AsyncGenerator", yields_, <<{}>>)}

\* an async generator under version 3.5: nothing is inferred
C12_AsyncGeneratorBelow36 ==
    /\ inferred.done
    /\ DeclaredAsync
    /\ HasYield
    /\ environment.version_info = Version(3, 5)
    /\ inferred.value_set = {}

(***************************************************************************)
(* The truthiness of the container values.                                 *)
(***************************************************************************)
\* a container value of any kind
TruthInit ==
    /\ OverloadIdle
    /\ RecursionIdle
    /\ ExecutionIdle
    /\ \/ \E l \in Literals :
              sequence = SequenceLiteralValue(LiteralAtom(l.shape, l.items, l.trailing))
       \/ \E d \in DictLiterals : sequence = DictLiteralValue(DictAtom(d.entries, d.trailing))
       \/ sequence \in FakeSequences
       \/ sequence \in ListComprehensions \cup OtherComprehensions
       \/ sequence \in FakeDicts \cup MergedArrays
    /\ settings = [dynamic_array_additions |-> TRUE, dynamic_params_for_other_modules |-> TRUE]
    /\ module_context = [compiled |-> FALSE, used_names |-> <<>>]
    /\ iterated = NotDone
    /\ item = NotDone
    /\ truth = NotDone
    /\ unpacking = NoUnpacking
    /\ unpacked = NotDone

\* the container is asked for its truthiness
PyBool ==
    /\ truth = NotDone
    /\ truth' = [done |-> TRUE, value |-> py__bool__(sequence)]
    /\ UNCHANGED <<sequence, settings, module_context, iterated, item, unpacking, unpacked>>
    /\ UNCHANGED <<overload_vars, execution_vars, recursion_vars>>

TruthNext == PyBool

SpecTruth == TruthInit /\ [][TruthNext]_vars

(***************************************************************************)
(* C13 -- truthiness is known for synthetic sequences only.                *)
(***************************************************************************)
BackedByList == sequence.cls = "FakeSequence"
BackingListTruth == IF sequence.lazy_value_list # <<>> THEN "True" ELSE "False"

\* C13 as stated: truthiness is unknown for literal containers, list, set,
\* dict and generator comprehensions, merged arrays and synthetic dicts,
\* and is definite only for a synthetic sequence, true exactly when its
\* backing list is non-empty.
C13_DefiniteOnlyForFakeSequence ==
    truth.done =>
        truth.value = (IF BackedByList THEN BackingListTruth ELSE "None")

\* C13, amended: a generator comprehension is always true; the other
\* containers without a backing list are unknown; a synthetic sequence is
\* true exactly when its backing list is non-empty.
C13_GeneratorComprehensionIsTrue ==
    truth.done =>
        truth.value = (IF BackedByList THEN BackingListTruth
                       ELSE IF sequence.cls = "GeneratorComprehension" THEN "True"
                       ELSE "None")

\* a generator comprehension was asked for its truthiness
C13_GeneratorComprehensionAsked ==
    /\ truth.done
    /\ sequence.cls = "GeneratorComprehension"

(***************************************************************************)
(* C14 -- indexing a list or tuple container by slice and by position.     *)
(***************************************************************************)
IsListOrTuple ==
    \/ sequence.cls \in {"FakeSequence", "ListComprehension"}
    \/ sequence.cls = "SequenceLiteralValue" /\ sequence.array_type \in {"list", "tuple"}

\* the value sets of the known elements, in order
KnownElements ==
    CASE sequence.cls = "FakeSequence" ->
             [i \in 1..Len(sequence.lazy_value_list) |->
                 LazyInfer(sequence.lazy_value_list[i])]
      [] sequence.cls = "ListComprehension" -> _iterate(sequence).yielded
      [] OTHER ->
             LET kept == SelectSeq(SourceItems(sequence.atom), IsNotBracketedStar)
             IN  [i \in 1..Len(kept) |-> kept[i].vals]

OverloadedCallWithoutMatch ==
    /\ call_log.called
    /\ function_value.cls = "OverloadedFunctionValue"
    /\ \A f \in Range(function_value.overloaded_functions) :
           scope[f.tree_node].binding # "match"

\* C15: when no candidate's signature matches the call, the call returns
\* the union of what the executions of all candidates infer, each candidate
\* being executed, except in analysis mode, where it returns the empty set.
C15_NoMatchMergesAllCandidates ==
    OverloadedCallWithoutMatch =>
        /\ Range(call_log.function_executions) = Range(function_value.overloaded_functions)
        /\ call_log.result =
               IF is_analysis THEN {}
               ELSE {f.tree_node : f \in Range(function_value.overloaded_functions)}
        /\ ~is_analysis =>
               Range(call_log.inferred) = Range(function_value.overloaded_functions)

\* two candidates, none matching, outside analysis mode: both are merged
C15_TwoCandidatesMerged ==
    /\ OverloadedCallWithoutMatch
    /\ ~is_analysis
    /\ Cardinality(Range(function_value.overloaded_functions)) >= 2
    /\ Cardinality(call_log.result) >= 2

(***************************************************************************)
(* function.py: the recursion guard on get_return_values and               *)
(* get_yield_lazy_values.  An execution's body holds a value of its own    *)
(* and, possibly, a call of an execution (itself or another one), whose    *)
(* result it takes in.                                                     *)
(***************************************************************************)
MaxExecutions == 2
MaxRequests == 2

\* the guarded method an execution is computed by: get_yield_lazy_values
\* for a generator, get_return_values otherwise; calls = 0: no call
ExecutionBodies ==
    [method : {"get_return_values", "get_yield_lazy_values"}, calls : 0..MaxExecutions]
OwnValue(execution) == [cls |-> "TreeValue", py |-> "own", safe |-> execution]

\* the `default` each decorator is given: an empty value set, iter([])
GuardDefault(method) ==
    IF method = "get_yield_lazy_values" THEN <<>> ELSE NO_VALUES

\* a release that leaves the marker behind
pop_execution_KeepsMarker(detector, execution) == detector

\* detector.push_execution(execution): whether the execution is being
\* computed already, and the markers afterwards
push_execution(detector, execution) ==
    [limit_reached |-> execution \in detector,
     detector |-> detector \cup {execution}]
\* detector.pop_execution(): the marker of the execution is released
pop_execution(detector, execution) == detector \ {execution}

\* the values of a result, whichever method computed it
ResultValues(method, result) ==
    IF method = "get_yield_lazy_values"
    THEN UNION {LazyInfer(result[i]) : i \in 1..Len(result)}
    ELSE result
\* a body takes in the values of the call it holds
TakeIn(method, result, values) ==
    IF method = "get_yield_lazy_values"
    THEN IF values = NO_VALUES THEN result ELSE Append(result, LazyKnownValues(values))
    ELSE result \cup values
OwnResult(execution, method) ==
    IF method = "get_yield_lazy_values"
    THEN <<LazyKnownValue(OwnValue(execution))>>
    ELSE {OwnValue(execution)}

Frame(execution, method, nested) ==
    [execution |-> execution, method |-> method, nested |-> nested, called |-> FALSE,
     result |-> OwnResult(execution, method)]
Answer(execution, method, nested, suppressed, result) ==
    [execution |-> execution, method |-> method, nested |-> nested,
     suppressed |-> suppressed, result |-> result]

\* the result of a computation goes to the body that called it
HandOver(stack, method, result) ==
    IF stack = <<>> THEN stack
    ELSE LET top == stack[Len(stack)]
         IN  [stack EXCEPT ![Len(stack)] =
                 [top EXCEPT !.called = TRUE,
                             !.result = TakeIn(top.method, top.result,
                                               ResultValues(method, result))]]

RecursionInit ==
    /\ OverloadIdle
    /\ ContainerIdle
    /\ ExecutionIdle
    /\ executions \in [1..MaxExecutions -> ExecutionBodies]
    /\ call_stack = <<>>
    /\ execution_recursion_detector = {}
    /\ guard_log = <<>>

\* the wrapper of the decorator is entered for an execution: by a request
\* of its own when nothing is being computed, by the call in the body of
\* the innermost computation otherwise
Enter ==
    /\ \E execution \in 1..MaxExecutions :
           LET method == executions[execution].method
               nested == call_stack # <<>>
               pushed == push_execution(execution_recursion_detector, execution)
           IN  /\ IF nested
                  THEN LET top == call_stack[Len(call_stack)]
                       IN  ~top.called /\ executions[top.execution].calls = execution
                  ELSE Cardinality({i \in 1..Len(guard_log) : ~guard_log[i].nested})
                           < MaxRequests
               /\ IF pushed.limit_reached
                  THEN /\ call_stack' = HandOver(call_stack, method, GuardDefault(method))
                       /\ guard_log' = Append(guard_log,
                                              Answer(execution, method, nested, TRUE,
                                                     GuardDefault(method)))
                       /\ UNCHANGED execution_recursion_detector
                  ELSE /\ call_stack' = Append(call_stack, Frame(execution, method, nested))
                       /\ execution_recursion_detector' = pushed.detector
                       /\ UNCHANGED guard_log
    /\ UNCHANGED executions
    /\ UNCHANGED <<overload_vars, container_vars, execution_vars>>

\* the innermost computation ends: its marker is released and its result
\* goes to its caller
Exit ==
    /\ call_stack # <<>>
    /\ LET top == call_stack[Len(call_stack)]
       IN  /\ top.called \/ executions[top.execution].calls = 0
           /\ execution_recursion_detector' =
                  pop_execution(execution_recursion_detector, top.execution)
           /\ call_stack' = HandOver(SubSeq(call_stack, 1, Len(call_stack) - 1),
                                     top.method, top.result)
           /\ guard_log' = Append(guard_log,
                                  Answer(top.execution, top.method, top.nested, FALSE,
                                         top.result))
    /\ UNCHANGED executions
    /\ UNCHANGED <<overload_vars, container_vars, execution_vars>>

RecursionNext == Enter \/ Exit

SpecRecursion == RecursionInit /\ [][RecursionNext]_vars

(***************************************************************************)
(* C16 -- re-entry answers with the empty default and leaves no marker.    *)
(***************************************************************************)
BeingComputed == {call_stack[i].execution : i \in 1..Len(call_stack)}

MaxTargets == 2

Name_z == Leaf("name", "z", {}, 0)
\* the lists of up to MaxTargets names, no name twice
NameLists ==
    {names \in SeqsUpTo({Name_x, Name_y, Name_z}, MaxTargets) :
        /\ names # <<>>
        /\ \A i, j \in 1..Len(names) : names[i] = names[j] => i = j}

\* `x, y` as each of the four kinds of list
TargetLists ==
    {Inner(type, WithCommas(names, FALSE)) :
        type \in {"testlist", "testlist_comp", "exprlist", "testlist_star_expr"},
        names \in NameLists}
Parenthesised(open, close, node) == Inner("atom", <<Operator(open), node, Operator(close)>>)
\* `a.b` or `a[0]`, `*x`, `()`, `{x}`
Target_power == Inner("power", <<Name_x, Operator(".")>>)
Target_atom_expr == Inner("atom_expr", <<Name_x, Operator("[")>>)
Target_star_expr == Inner("star_expr", <<Operator("*"), Name_x>>)
Target_empty_tuple == Inner("atom", <<Operator("("), Operator(")")>>)
Target_braces == Parenthesised("{", "}", Name_x)

Targets ==
    {Name_x} \cup TargetLists
    \cup {Parenthesised("(", ")", Inner("testlist_comp", <<Name_x, Operator(","), Name_y>>)),
          Parenthesised("[", "]", Name_x),
          Target_power, Target_atom_expr, Target_star_expr,
          Target_empty_tuple, Target_braces, Number_1,
          Inner("exprlist", <<Name_x, Operator(","), Target_star_expr>>),
          Inner("exprlist", <<Target_atom_expr, Operator(","), Name_y>>),
          Inner("exprlist", <<Name_x, Operator(","), Number_1>>),
          Inner("exprlist", <<Name_x, Operator(","), Name_x>>)}

\* what is unpacked: nothing, a value that does not iterate, a tuple
UnpackedTypes ==
    {NO_VALUES, {V_int1}}
    \cup {{FakeSequence("tuple", lazy_value_list)} :
             lazy_value_list \in SeqsUpTo(KnownLazies, MaxElems)}

UnpackInit ==
    /\ OverloadIdle
    /\ RecursionIdle
    /\ ExecutionIdle
    /\ sequence = NoSequence
    /\ settings = [dynamic_array_additions |-> TRUE, dynamic_params_for_other_modules |-> TRUE]
    /\ module_context = [compiled |-> FALSE, used_names |-> <<>>]
    /\ iterated = NotDone
    /\ item = NotDone
    /\ truth = NotDone
    /\ \E types \in UnpackedTypes :
       \E exprlist \in Targets :
           unpacking = [cls |-> "unpacking", value |-> "context", types |-> types,
                        exprlist |-> exprlist]
    /\ unpacked = NotDone

\* the types are unpacked into the targets
Unpack ==
    /\ unpacked = NotDone
    /\ unpacked' = [done |-> TRUE]
                   @@ unpack_tuple_to_dict(unpacking.value, unpacking.types,
                                           unpacking.exprlist)
    /\ UNCHANGED <<sequence, settings, module_context, iterated, item, truth, unpacking>>
    /\ UNCHANGED <<overload_vars, execution_vars, recursion_vars>>

UnpackNext == Unpack

SpecUnpack == UnpackInit /\ [][UnpackNext]_vars

(***************************************************************************)
(* C17 -- unpacking never aborts.                                          *)
(***************************************************************************)
\* C17: unpack_tuple_to_dict returns an empty binding for a target that is
\* an attribute or subscript expression (power, atom_expr) or a starred
\* expression, and returns a binding, never raising, for a target of every
\* other kind.
C17_UnpackingNeverRaises ==
    unpacked.done =>
        /\ ~unpacked.raised
        /\ unpacking.exprlist.type \in {"power", "atom_expr", "star_expr"} =>
               DOMAIN unpacked.dct = {}

(***************************************************************************)
(* C18 -- a list of M names unpacked from K elements.                      *)
(***************************************************************************)
\* the names of a target list, in order
TargetNames ==
    LET c == unpacking.exprlist.children
    IN  [i \in 1..((Len(c) + 1) \div 2) |-> c[2 * i - 1]]

\* a list of M different names was unpacked from a tuple of K elements
NamesUnpackedFromTuple ==
    /\ unpacked.done
    /\ unpacking.exprlist.type \in {"testlist", "testlist_comp", "exprlist",
                                    "testlist_star_expr"}
    /\ \A i \in 1..Len(TargetNames) : TargetNames[i].type = "name"
    /\ \A i, j \in 1..Len(TargetNames) : TargetNames[i] = TargetNames[j] => i = j
    /\ \E v \in unpacking.types : unpacking.types = {v} /\ v.cls = "FakeSequence"

UnpackedElements == (CHOOSE v \in unpacking.types : TRUE).lazy_value_list

IssuesNamed(name) ==
    {i \in 1..Len(unpacked.issues) :
        /\ unpacked.issues[i].name = name
        /\ unpacked.issues[i].node \in Range(TargetNames)}

\* C18: when a list of M names is unpacked from a value that iterates to K
\* elements, K # M, a diagnostic is recorded on a target node
\* (too-many-values when K > M, too-few-values when 0 < K < M), nothing is
\* raised, and the first min(K, M) names are bound, each to the value set of
\* the element at its position.
C18_ArityMismatchIsRecorded ==
    NamesUnpackedFromTuple =>
        LET M == Len(TargetNames)
            K == Len(UnpackedElements)
            bound == IF K < M THEN K ELSE M
        IN  /\ ~unpacked.raised
            /\ K > M => /\ IssuesNamed("value-error-too-many-values") # {}
                        /\ IssuesNamed("value-error-too-few-values") = {}
            /\ 0 < K /\ K < M => /\ IssuesNamed("value-error-too-few-values") # {}
                                 /\ IssuesNamed("value-error-too-many-values") = {}
            /\ K = M => unpacked.issues = <<>>
            /\ DOMAIN unpacked.dct = {TargetNames[i].value : i \in 1..bound}
            /\ \A i \in 1..bound :
                   unpacked.dct[TargetNames[i].value] =
                       (IF UnpackedElements[i].cls = "LazyTreeValue"
                        THEN UnpackedElements[i].data.vals
                        ELSE UnpackedElements[i].data)

\* `x, y` unpacked from a tuple of one element: x is bound, y is reported
C18_TwoNamesFromOneElement ==
    /\ NamesUnpackedFromTuple
    /\ Len(TargetNames) = 2
    /\ Len(UnpackedElements) = 1
    /\ Len(unpacked.issues) = 1
    /\ unpacked.issues[1].node = TargetNames[2]
    /\ DOMAIN unpacked.dct = {TargetNames[1].value}

(***************************************************************************)
(* C19 -- the yields of a function the ordering does not follow.           *)
(***************************************************************************)
\* the values of the yield expressions of a statement
YieldValuesUnder(s) ==
    UNION {UNION {LazyInfer(lazy) : lazy \in Range(LaziesOfYield(y))} : y \in Range(s.yields)}

YieldsNotFollowed == yield_lazy_values.done /\ ~OrderingFollows

\* C19: when a yield of the function is not ordering-trackable,
\* get_yield_lazy_values hands over exactly one lazy value holding the union
\* of the values of all yield expressions that are not unreachable, or
\* nothing when that union is empty, and no entry per yield or per iteration.
C19_OneBagOfAllYields ==
    YieldsNotFollowed =>
        LET bag == UNION {YieldValuesUnder(TheBody[i]) :
                             i \in {j \in DOMAIN TheBody :
                                       yield_lazy_values.flow[j] # UNREACHABLE}}
        IN  yield_lazy_values.values =
                IF bag = {} THEN <<>>
                ELSE <<[lazy |-> LazyKnownValues(bag), predefined_names |-> <<>>]>>

(***************************************************************************)
(* C20 -- what an accepted call site adds to the container.                *)
(***************************************************************************)
\* def find_additions(value, arglist, add_name), nested in
\* _check_array_additions and called for an accepted call site; the calls
\* of the module hold one positional argument
find_additions(arglist, add_name) ==
    LET unpack == <<LazyTreeValue(arglist)>>
        params == IF add_name \in {"insert"} THEN Tail(unpack) ELSE unpack
    IN  IF add_name \in {"append", "add", "insert"}
        THEN Range(params)
        ELSE IF add_name \in {"extend", "update"}
        THEN UNION {Range(ValueSetIterate(LazyInfer(lazy_value))) :
                       lazy_value \in Range(params)}
        ELSE {}

\* the call sites of the methods searched for the container, on the
\* container itself
AcceptedCallSites ==
    {o \in Range(module_context.used_names) :
        o.name \in RelevantNames /\ IsCallSite(o) /\ o.receiver_is_sequence}

ListOrSetScanned ==
    /\ iterated.done
    /\ sequence.cls = "SequenceLiteralValue"
    /\ sequence.array_type \in {"list", "set"}
    /\ settings.dynamic_array_additions
    /\ ~module_context.compiled

\* C20: the additions of a scanned list or set are those of its accepted
\* call sites, folded by method: append and add give one lazy element per
\* argument, insert one per argument after the first, extend and update the
\* iterated elements of each argument; a list is searched for append, extend
\* and insert only, a set for add and update only.
C20_AdditionsFoldedByMethod ==
    ListOrSetScanned =>
        /\ ~iterated.raised
        /\ YieldedAdditions =
               UNION {find_additions(o.following[1].children[2], o.name) :
                         o \in AcceptedCallSites}

(***************************************************************************)
(* C21 -- which call sites the scanner accepts.                            *)
(***************************************************************************)
\* the arguments of the call sites that meet every condition
AcceptedArguments ==
    UNION {find_additions(o.following[1].children[2], o.name) : o \in AcceptedCallSites}

Implementation ==
    IF function_value.cls = "OverloadedFunctionValue"
    THEN function_value.wrapped_value.tree_node
    ELSE function_value.tree_node

\* what _find_overload_functions yielded for it, the definition itself left out
YieldedPrior ==
    IF function_value.cls = "OverloadedFunctionValue"
    THEN SelectSeq([i \in 1..Len(function_value.overloaded_functions) |->
                       function_value.overloaded_functions[i].tree_node],
                   LAMBDA n : n # Implementation)
    ELSE <<>>

IsOverload(n) == scope[n].type = "funcdef" /\ _is_overload_decorated(scope[n])

\* the overload-decorated definitions that precede the implementation with
\* no definition lacking the marker in between
PrecedingChain ==
    {k \in 1..(Implementation - 1) : \A m \in k..(Implementation - 1) : IsOverload(m)}

\* C22: overload discovery ends for every scope and definition; it yields
\* each overload-decorated prior definition at most once, namely those of
\* the chain immediately before the implementation, up to the first
\* preceding definition without the overload marker; a lambda yields nothing.
C22_ChainYieldedOnce ==
    function_value # NoFunction =>
        /\ Implementation = Lambdef => function_value.cls # "OverloadedFunctionValue"
        /\ \A i, j \in 1..Len(YieldedPrior) : i # j => YieldedPrior[i] # YieldedPrior[j]
        /\ Range(YieldedPrior) = PrecedingChain

\* the parts of C22 that do not depend on what the name filter returns
C22_LambdaYieldsNothing ==
    (function_value # NoFunction /\ Implementation = Lambdef) =>
        function_value.cls # "OverloadedFunctionValue"

C22_YieldedOnce ==
    function_value # NoFunction =>
        \A i, j \in 1..Len(YieldedPrior) : i # j => YieldedPrior[i] # YieldedPrior[j]

C22_OnlyPriorOverloads ==
    function_value # NoFunction =>
        \A n \in Range(YieldedPrior) : n < Implementation /\ IsOverload(n)

(***************************************************************************)
(* C23 -- the scan leaves dynamic_params_for_other_modules as it found it. *)
(***************************************************************************)
\* C23: whichever way _check_array_additions ends (early return, normal
\* return, or an error raised at a call site), the setting
\* dynamic_params_for_other_modules has afterwards the value it had before
\* the call.
C23_SettingRestoredOnEveryExit ==
    [][(~iterated.done /\ iterated'.done) =>
           settings'.dynamic_params_for_other_modules
               = settings.dynamic_params_for_other_modules]_vars

\* the exits of C23 that do restore the setting: those without an error
C23_SettingRestoredOnReturn ==
    [][(~iterated.done /\ iterated'.done /\ ~iterated'.raised) => settings' = settings]_vars

(***************************************************************************)
(* Comprehensions of every kind, iterated.                                 *)
(***************************************************************************)
\* ((1, 2), ("s",)): pairs of different lengths; the name x that is (1, 2)
\* in the module
Single_s == FakeSequence("tuple", <<LazyTreeValue(String_s)>>)
Tuple_uneven == IterableNode("((1, 2), ('s',))", <<LazyKnownValue(Pair_1_2), LazyKnownValue(Single_s)>>)
Name_x_bound == Leaf("name", "x", {Pair_1_2}, 0)

\* `for y in ((1, 2), ('s',)) for x in y`, `for x in (1, 2) for y in (1, 2)`,
\* `for y in () for x in (1, 2)`, `for x in x` and `for y in x for x in (1, 2)`
\* where x is (1, 2) in the module
ChainedCompFors ==
    SyncCompFors
    \cup {SyncCompFor(Name_y, Tuple_uneven, <<SyncCompFor(Name_x, Name_y, <<>>)>>),
          SyncCompFor(Name_x, Tuple_1_2, <<SyncCompFor(Name_y, Tuple_1_2, <<>>)>>),
          SyncCompFor(Name_y, Tuple_empty, <<SyncCompFor(Name_x, Tuple_1_2, <<>>)>>),
          SyncCompFor(Name_x, Name_x_bound, <<>>),
          SyncCompFor(Name_y, Name_x_bound, <<SyncCompFor(Name_x, Tuple_1_2, <<>>)>>)}
ResultNodes == {Name_x, Name_y, Number_1}

Comprehensions ==
    {ListComprehension(c, e) : c \in ChainedCompFors, e \in ResultNodes}
    \cup {SetComprehension(c, e) : c \in ChainedCompFors, e \in ResultNodes}
    \cup {GeneratorComprehension(c, e) : c \in ChainedCompFors, e \in ResultNodes}
    \cup {DictComprehension(c, k, v) : c \in ChainedCompFors, k \in ResultNodes,
                                       v \in {Name_x, Name_y}}

IteratedComprehensionInit ==
    /\ OverloadIdle
    /\ RecursionIdle
    /\ ExecutionIdle
    /\ sequence \in Comprehensions
    /\ settings \in Settings
    /\ module_context = [compiled |-> FALSE, used_names |-> <<>>]
    /\ iterated = NotDone
    /\ item = NotDone
    /\ truth = NotDone
    /\ unpacking = NoUnpacking
    /\ unpacked = NotDone

SpecComprehension == IteratedComprehensionInit /\ [][PyIter]_vars

(***************************************************************************)
(* C24 -- chained for-clauses give one entry per combination, in           *)
(* nested-loop order.                                                      *)
(***************************************************************************)
Clauses == get_sync_comp_fors(sequence.sync_comp_for_node)

\* the elements of the outermost clause, and the names bound while its i-th
\* element is current
OuterElements == IterateNodeWith(Clauses[1].children[4], EmptyDict)
OuterBinding(i) ==
    unpack_tuple_to_dict("comp_for", LazyInfer(OuterElements[i]), Clauses[1].children[2]).dct

\* the elements of the second clause under the i-th outer binding, and the
\* names bound while its j-th element is current
InnerElements(i) == IterateNodeWith(Clauses[2].children[4], OuterBinding(i))
InnerBinding(i, j) ==
    unpack_tuple_to_dict("comp_for", LazyInfer(InnerElements(i)[j]), Clauses[2].children[2]).dct
        @@ OuterBinding(i)

\* the entry a comprehension gives under a binding of its clause variables
EntryUnder(names) ==
    IF sequence.array_type = "dict"
    THEN <<InferNodeWith(sequence.entry_node, names), InferNodeWith(sequence.value_node, names)>>
    ELSE InferNodeWith(sequence.entry_node, names)

\* what iteration hands out for an entry: the entry, of a dict its key
HandedOut(entry) ==
    LazyKnownValues(IF sequence.array_type = "dict" THEN entry[1] ELSE entry)

\* the number of combinations whose outer element comes before the i-th
RECURSIVE CombinationsBefore(_)
CombinationsBefore(i) ==
    IF i <= 1 THEN 0 ELSE CombinationsBefore(i - 1) + Len(InnerElements(i - 1))

ComprehensionIterated ==
    /\ iterated.done
    /\ sequence.cls \in {"ListComprehension", "SetComprehension",
                         "GeneratorComprehension", "DictComprehension"}

\* C24: a comprehension with chained for-clauses gives one entry per
\* combination of their elements, the outermost clause varying slowest; each
\* entry is the result expression (of a dict comprehension the key and value
\* expressions) inferred with every clause variable bound to its current
\* element, an inner clause's iterable being inferred under the outer
\* bindings and the outermost under none.
C24_NestedLoopOrder ==
    ComprehensionIterated =>
        /\ ~iterated.raised
        /\ Len(Clauses) = 1 =>
               /\ Len(iterated.yielded) = Len(OuterElements)
               /\ \A i \in 1..Len(OuterElements) :
                      /\ iterated.yielded[i] = HandedOut(EntryUnder(OuterBinding(i)))
                      /\ _iterate(sequence).yielded[i] = EntryUnder(OuterBinding(i))
        /\ Len(Clauses) = 2 =>
               /\ Len(iterated.yielded) = CombinationsBefore(Len(OuterElements) + 1)
               /\ \A i \in 1..Len(OuterElements) : \A j \in 1..Len(InnerElements(i)) :
                      LET k == CombinationsBefore(i) + j
                      IN  /\ iterated.yielded[k] = HandedOut(EntryUnder(InnerBinding(i, j)))
                          /\ _iterate(sequence).yielded[k] = EntryUnder(InnerBinding(i, j))

\* `{y: x for y in ((1, 2), ('s',)) for x in y}` was iterated: three entries,
\* the inner clause running over the current outer element
C24_UnevenPairsIterated ==
    /\ ComprehensionIterated
    /\ sequence.cls = "DictComprehension"
    /\ Len(Clauses) = 2
    /\ Len(OuterElements) = 2
    /\ Len(InnerElements(1)) = 2 /\ Len(InnerElements(2)) = 1
    /\ Len(iterated.yielded) = 3
    /\ sequence.entry_node = Name_y /\ sequence.value_node = Name_x
    /\ _iterate(sequence).yielded[3] = <<{Single_s}, String_s.vals>>
    /\ iterated.yielded[1] # iterated.yielded[3]

(***************************************************************************)
(* Merged containers, iterated and indexed.                                *)
(***************************************************************************)
MaxArrays == 2

\* a get_item that gives only the element at the index
MergedValueAt(all, index) ==
    IF all.raised
    THEN [raised |-> "NotImplementedError", result |-> NO_VALUES, settings |-> all.settings]
    ELSE IF index.py = "int" /\ index.safe >= 0 /\ index.safe < Len(all.yielded)
    THEN [raised |-> "", result |-> LazyInfer(all.yielded[index.safe + 1]),
          settings |-> all.settings]
    ELSE [raised |-> "SimpleGetItemNotFound", result |-> NO_VALUES,
          settings |-> all.settings]

MergedGetitem_AtIndex(self, index, st, module) ==
    MergedValueAt(py__iter__(self, st, module), index)

\* ValueSet.from_sets(lazy_value.infer() for lazy_value in self.py__iter__())
MergedValues(all) ==
    IF all.raised
    THEN [raised |-> "NotImplementedError", result |-> NO_VALUES, settings |-> all.settings]
    ELSE [raised |-> "",
          result |-> UNION {LazyInfer(all.yielded[k]) : k \in 1..Len(all.yielded)},
          settings |-> all.settings]

\* MergedArray.py__simple_getitem__(index)
MergedGetitem(self, index, st, module) == MergedValues(py__iter__(self, st, module))

\* the arrays that are merged: synthetic lists and tuples, `(1, x)`, `[]`,
\* `[x for x in (1, 2)]`, and a merged array
MergedChildren ==
    {FakeSequence("list", <<LazyKnownValues({V_int1})>>),
     FakeSequence("tuple", <<LazyKnownValues({V_str}), LazyKnownValues({V_int1, V_tree})>>),
     FakeSequence("tuple", <<>>),
     SequenceLiteralValue(LiteralAtom("(", <<Item_number, Item_name>>, FALSE)),
     SequenceLiteralValue(LiteralAtom("[", <<>>, FALSE)),
     ListComprehension(SyncCompFor(Name_x, Tuple_1_2, <<>>), Name_x),
     MergedArray(<<FakeSequence("list", <<LazyKnownValues({V_str})>>),
                   FakeSequence("tuple", <<LazyKnownValues({V_int1})>>)>>)}

\* A1 + ... + Ak in a module that calls no method, or `append` on the list
MergedInit ==
    /\ OverloadIdle
    /\ RecursionIdle
    /\ ExecutionIdle
    /\ \E arrays \in SeqsUpTo(MergedChildren, MaxArrays) \ {<<>>} :
           sequence = MergedArray(arrays)
    /\ settings \in Settings
    /\ \E used_names \in {<<>>,
                           <<Occurrence("append", <<2, 4>>, <<CallTrailer(Arg_int)>>, TRUE)>>} :
           module_context = [compiled |-> FALSE, used_names |-> used_names]
    /\ iterated = NotDone
    /\ item = NotDone
    /\ truth = NotDone
    /\ unpacking = NoUnpacking
    /\ unpacked = NotDone

\* the merged container is indexed
MergedPySimpleGetitem ==
    /\ item = NotDone
    /\ sequence.cls = "MergedArray"
    /\ \E index \in Indexes :
       \E r \in {MergedGetitem(sequence, index, settings, module_context)} :
           /\ item' = [done |-> TRUE, index |-> index,
                       raised |-> r.raised, result |-> r.result]
           /\ settings' = r.settings
    /\ UNCHANGED <<sequence, module_context, iterated, truth, unpacking, unpacked>>
    /\ UNCHANGED <<overload_vars, execution_vars, recursion_vars>>

MergedNext == PyIter \/ MergedPySimpleGetitem

SpecMerged == MergedInit /\ [][MergedNext]_vars

(***************************************************************************)
(* C25 -- a merged container iterates its arrays in turn and answers every *)
(* index with the union of their elements.                                 *)
(***************************************************************************)
\* the iteration of the k-th array on its own
ArrayIteration(k) == py__iter__(sequence.arrays[k], settings, module_context)

EveryArrayIterates == \A k \in 1..Len(sequence.arrays) : ~ArrayIteration(k).raised

\* the number of elements of the arrays before the k-th
RECURSIVE ElementsBefore(_)
ElementsBefore(k) ==
    IF k <= 1 THEN 0 ELSE ElementsBefore(k - 1) + Len(ArrayIteration(k - 1).yielded)

ElementValues(k) ==
    UNION {LazyInfer(ArrayIteration(k).yielded[i]) : i \in 1..Len(ArrayIteration(k).yielded)}

AllElementValues == UNION {ElementValues(k) : k \in 1..Len(sequence.arrays)}

\* C25: a merged container of the arrays A1..Ak has the array_type of Ak;
\* iterating it yields the iteration of A1, then of A2, ..., then of Ak, each
\* array's entries in that array's own order; get_item returns for every
\* index the union of the value sets of all iterated elements and never
\* signals 'no such item', not even for an index outside the combined range.
C25_MergedIsConcatenation ==
    sequence.cls = "MergedArray" =>
        /\ sequence.array_type = sequence.arrays[Len(sequence.arrays)].array_type
        /\ iterated.done =>
               /\ iterated.raised = ~EveryArrayIterates
               /\ EveryArrayIterates =>
                      /\ Len(iterated.yielded) = ElementsBefore(Len(sequence.arrays) + 1)
                      /\ \A k \in 1..Len(sequence.arrays) :
                         \A i \in 1..Len(ArrayIteration(k).yielded) :
                             iterated.yielded[ElementsBefore(k) + i] = ArrayIteration(k).yielded[i]
        /\ item.done =>
               /\ item.raised # "SimpleGetItemNotFound"
               /\ EveryArrayIterates =>
                      /\ item.raised = ""
                      /\ item.result = AllElementValues

\* a list of one element merged with a tuple of two, iterated, and indexed
\* past the three elements
C25_IndexedPastCombinedRange ==
    /\ sequence.cls = "MergedArray"
    /\ Len(sequence.arrays) = 2
    /\ sequence.arrays[1].array_type = "list" /\ sequence.array_type = "tuple"
    /\ iterated.done /\ Len(iterated.yielded) = 3
    /\ iterated.yielded[1] # iterated.yielded[2]
    /\ item.done /\ item.index = IntIndex(3)
    /\ item.result = {V_int1, V_str, V_tree}

====
